---- MODULE Spec2Model ----
(***************************************************************************)
(* Client-side document ingestion of ai-rag-web: the file validator        *)
(* (file-utils), the format dispatcher and the per-format extractors       *)
(* (lib/file-parser.ts) and the batch orchestrator parseFiles.             *)
(*                                                                         *)
(* A JavaScript string is modelled as the sequence of its characters, each *)
(* a one-character string, so that toLowerCase, endsWith, trim and the     *)
(* template literals are computed, not assumed.                           *)
(***************************************************************************)
EXTENDS Integers, Sequences, FiniteSets, TLC

VARIABLES
    files,       \* the batch handed to validateFiles / parseFiles (File[])
    validation,  \* <<>> before validateFiles ran, then <<its return value>>
    pc,          \* position of the parseFiles call
    i,           \* parseFiles' loop index (1-based here, 0-based in the code)
    results,     \* parseFiles' local `results`
    inflight,    \* indices whose parseFile promise is pending
    settled,     \* indices whose parseFile promise has settled
    extractors,  \* per parseFile call so far, the extractor it was routed to
    completions, \* per settled parseFile call, how it completed
    thrown,      \* <<>>, or <<the exception parseFiles rejected with>>
    content,     \* createContentPreview's first argument
    maxLength,   \* its second argument: <<>> when omitted, <<n>> when given
    preview,     \* <<>> before createContentPreview ran, then its return values
    now,         \* what Date.now() returns when read
    storage,     \* the objects of the bucket 'documents': [path, by]
    documents,   \* the rows of the table documents
    calls,       \* the uploadDocument calls: arguments, position, locals, result
    message,     \* ChatInput: the text of the textarea
    selectedFiles, \* ChatInput: the attached files
    isParsing,   \* ChatInput: files of a submission are being parsed and uploaded
    isAIResponding, \* ChatInterface: the AI response is awaited (isLoading of ChatInput)
    toast,       \* the last message handleFileSelect gave to toast.error (empty: none)
    sub,         \* the handleSubmit call followed: position, locals, what it did
    kbSelected,  \* DocumentUpload: its selectedFiles
    isUploading, \* DocumentUpload and the knowledge page: an upload is running
    kb           \* the knowledge page's handleUpload call: position and locals

\* the state of the validateFiles / parseFiles calls
parseVars == <<files, validation, pc, i, results, inflight, settled, extractors, completions, thrown>>

\* the state of the createContentPreview call
previewVars == <<content, maxLength, preview>>

\* the state of the uploadDocument calls and of what they write to
uploadVars == <<now, storage, documents, calls>>

\* the state of the chat input and of its submission
chatVars == <<message, selectedFiles, isParsing, isAIResponding, toast, sub>>

\* the state of the knowledge-base page and of its upload
kbVars == <<kbSelected, isUploading, kb>>

vars == <<parseVars, previewVars, uploadVars, chatVars, kbVars>>

\* what the steps of one part of the program leave alone
notParse == <<previewVars, uploadVars, chatVars, kbVars>>

notPreview == <<parseVars, uploadVars, chatVars, kbVars>>

notUpload == <<parseVars, previewVars, chatVars, kbVars>>

notChat == <<parseVars, previewVars, uploadVars, kbVars>>

notKb == <<parseVars, previewVars, uploadVars, chatVars>>

----------------------------------------------------------------------------
(* Bounds of the model *)

\* longest batch handed to parseFiles / validateFiles
MaxFiles == 3

\* most pages of a PDF document
MaxPages == 3

\* most lines of a CSV text
MaxRows == 3

\* most files attached to the chat input at a time
MaxAttached == 2

\* most advances of the clock during a run
MaxTicks == 1

\* longest short text handed to createContentPreview
MaxTextLen == 5

----------------------------------------------------------------------------
(* String primitives of the language runtime *)

UpperChars == <<"A","B","C","D","E","F","G","H","I","J","K","L","M","N","O","P","Q","R","S","T","U","V","W","X","Y","Z">>

LowerChars == <<"a","b","c","d","e","f","g","h","i","j","k","l","m","n","o","p","q","r","s","t","u","v","w","x","y","z">>

\* upper-case letter -> lower-case letter
LowerOf ==
    [c \in {UpperChars[k] : k \in 1..Len(UpperChars)} |->
        LowerChars[CHOOSE k \in 1..Len(UpperChars) : UpperChars[k] = c]]

toLowerCaseChar(c) == IF c \in DOMAIN LowerOf THEN LowerOf[c] ELSE c

toLowerCase(s) == [k \in 1..Len(s) |-> toLowerCaseChar(s[k])]

endsWith(s, suffix) ==
    /\ Len(suffix) <= Len(s)
    /\ SubSeq(s, Len(s) - Len(suffix) + 1, Len(s)) = suffix

startsWith(s, prefix) ==
    /\ Len(prefix) <= Len(s)
    /\ SubSeq(s, 1, Len(prefix)) = prefix

\* the characters the regular expression class \s and trim() treat as blank
IsSpace(c) == c \in {" ", "\t", "\n", "\r"}

SetMin(S) == CHOOSE x \in S : \A y \in S : x <= y

SetMax(S) == CHOOSE x \in S : \A y \in S : y <= x

trim(s) ==
    LET solid == {k \in 1..Len(s) : ~IsSpace(s[k])}
    IN  IF solid = {} THEN <<>> ELSE SubSeq(s, SetMin(solid), SetMax(solid))

\* s.replace(/\s+/g, ' ')
RECURSIVE collapseWhitespace(_)
collapseWhitespace(s) ==
    IF s = <<>> THEN <<>>
    ELSE IF IsSpace(Head(s))
         THEN IF Len(s) > 1 /\ IsSpace(s[2])
              THEN collapseWhitespace(Tail(s))
              ELSE <<" ">> \o collapseWhitespace(Tail(s))
         ELSE <<Head(s)>> \o collapseWhitespace(Tail(s))

\* s.substring(start, end): both clamped to 0..length, swapped when start > end
substring(s, start, end) ==
    LET clamp(x) == IF x < 0 THEN 0 ELSE IF x > Len(s) THEN Len(s) ELSE x
        a == clamp(start)
        b == clamp(end)
    IN  IF a <= b THEN SubSeq(s, a + 1, b) ELSE SubSeq(s, b + 1, a)

\* s.split(c) for a one-character separator c
RECURSIVE split(_, _)
split(s, c) ==
    LET at == {k \in 1..Len(s) : s[k] = c}
    IN  IF at = {} THEN <<s>>
        ELSE <<SubSeq(s, 1, SetMin(at) - 1)>> \o split(SubSeq(s, SetMin(at) + 1, Len(s)), c)

\* parts.join(sep)
RECURSIVE join(_, _)
join(parts, sep) ==
    IF parts = <<>> THEN <<>>
    ELSE IF Len(parts) = 1 THEN parts[1]
    ELSE parts[1] \o sep \o join(Tail(parts), sep)

Digits == <<"0","1","2","3","4","5","6","7","8","9">>

\* String(n) for a non-negative integer
RECURSIVE numberToString(_)
numberToString(n) ==
    IF n < 10 THEN <<Digits[n + 1]>>
    ELSE numberToString(n \div 10) \o <<Digits[(n % 10) + 1]>>

RECURSIVE pow(_, _)
pow(b, e) == IF e = 0 THEN 1 ELSE b * pow(b, e - 1)

\* truthiness of a string (undefined is modelled as the empty string)
Truthy(s) == Len(s) > 0

----------------------------------------------------------------------------
(* Completion records: a call either returns a value or throws *)

Return(v) == [ok |-> TRUE, value |-> v, isError |-> FALSE, message |-> <<>>]

\* throw of a value; isError: `value instanceof Error`, message: its .message
Throw(isErr, msg) == [ok |-> FALSE, value |-> <<>>, isError |-> isErr, message |-> msg]

ThrowError(msg) == Throw(TRUE, msg)

\* error instanceof Error ? error.message : 'Unknown error'
messageOf(c) == IF c.isError THEN c.message ELSE <<"U","n","k","n","o","w","n"," ","e","r","r","o","r">>

\* try { ... } catch (error) { throw new Error(`${prefix}${message}`) }
rethrowWrapped(prefix, c) ==
    IF c.ok THEN c ELSE ThrowError(prefix \o messageOf(c))

----------------------------------------------------------------------------
(* File validator (file-utils) *)

MAX_FILE_SIZE == 10 * 1024 * 1024

MIME_PDF == <<"a","p","p","l","i","c","a","t","i","o","n","/","p","d","f">>

MIME_TXT == <<"t","e","x","t","/","p","l","a","i","n">>

MIME_MD == <<"t","e","x","t","/","m","a","r","k","d","o","w","n">>

MIME_CSV == <<"t","e","x","t","/","c","s","v">>

MIME_DOC == <<"a","p","p","l","i","c","a","t","i","o","n","/","m","s","w","o","r","d">>

MIME_DOCX == <<"a","p","p","l","i","c","a","t","i","o","n","/","v","n","d",".","o","p","e","n","x","m","l","f","o","r","m","a","t","s","-","o","f","f","i","c","e","d","o","c","u","m","e","n","t",".","w","o","r","d","p","r","o","c","e","s","s","i","n","g","m","l",".","d","o","c","u","m","e","n","t">>

MIME_XLS == <<"a","p","p","l","i","c","a","t","i","o","n","/","v","n","d",".","m","s","-","e","x","c","e","l">>

MIME_XLSX == <<"a","p","p","l","i","c","a","t","i","o","n","/","v","n","d",".","o","p","e","n","x","m","l","f","o","r","m","a","t","s","-","o","f","f","i","c","e","d","o","c","u","m","e","n","t",".","s","p","r","e","a","d","s","h","e","e","t","m","l",".","s","h","e","e","t">>

MIME_PPT == <<"a","p","p","l","i","c","a","t","i","o","n","/","v","n","d",".","m","s","-","p","o","w","e","r","p","o","i","n","t">>

MIME_PPTX == <<"a","p","p","l","i","c","a","t","i","o","n","/","v","n","d",".","o","p","e","n","x","m","l","f","o","r","m","a","t","s","-","o","f","f","i","c","e","d","o","c","u","m","e","n","t",".","p","r","e","s","e","n","t","a","t","i","o","n","m","l",".","p","r","e","s","e","n","t","a","t","i","o","n">>

\* the table's entries in source order: <<key, extensions>>
ALLOWED_FILE_TYPES ==
    << <<MIME_PDF,  <<<<".","p","d","f">>>>>>,
       <<MIME_TXT,  <<<<".","t","x","t">>>>>>,
       <<MIME_MD,   <<<<".","m","d">>>>>>,
       <<MIME_CSV,  <<<<".","c","s","v">>>>>>,
       <<MIME_DOC,  <<<<".","d","o","c">>>>>>,
       <<MIME_DOCX, <<<<".","d","o","c","x">>>>>>,
       <<MIME_XLS,  <<<<".","x","l","s">>>>>>,
       <<MIME_XLSX, <<<<".","x","l","s","x">>>>>>,
       <<MIME_PPT,  <<<<".","p","p","t">>>>>>,
       <<MIME_PPTX, <<<<".","p","p","t","x">>>>>> >>

\* all-lower-case property names every object inherits from Object.prototype;
\* the `in` operator finds them as well as the table's own keys
InheritedKeys == {<<"c","o","n","s","t","r","u","c","t","o","r">>, <<"_","_","p","r","o","t","o","_","_">>}

\* key in ALLOWED_FILE_TYPES
InAllowedFileTypes(key) ==
    \/ \E k \in 1..Len(ALLOWED_FILE_TYPES) : ALLOWED_FILE_TYPES[k][1] = key
    \/ key \in InheritedKeys

\* Object.values(ALLOWED_FILE_TYPES).flat()
RECURSIVE flatValues(_)
flatValues(table) ==
    IF table = <<>> THEN <<>> ELSE Head(table)[2] \o flatValues(Tail(table))

\* variant: only the formats that have an extractor are allowed
validateFileTypeNoPowerPoint(file) ==
    LET fileType == toLowerCase(file.type)
        fileName == toLowerCase(file.name)
        allowedExtensions == flatValues(SubSeq(ALLOWED_FILE_TYPES, 1, 8))
    IN  \/ \E k \in 1..8 : ALLOWED_FILE_TYPES[k][1] = fileType
        \/ \E k \in 1..Len(allowedExtensions) : endsWith(fileName, allowedExtensions[k])

validateFileType(file) ==
    LET fileType == toLowerCase(file.type)
        fileName == toLowerCase(file.name)
        allowedExtensions == flatValues(ALLOWED_FILE_TYPES)
    IN  \/ Truthy(fileType) /\ InAllowedFileTypes(fileType)
        \/ \E k \in 1..Len(allowedExtensions) : endsWith(fileName, allowedExtensions[k])

\* variant: the bound itself rejected
validateFileSizeStrict(file) == file.size < MAX_FILE_SIZE

validateFileSize(file) == file.size <= MAX_FILE_SIZE

SizeUnits == <<<<"B","y","t","e","s">>, <<"K","B">>, <<"M","B">>, <<"G","B">>>>

\* Math.floor(Math.log(bytes) / Math.log(1024)) for bytes >= 1
RECURSIVE log1024(_)
log1024(bytes) == IF bytes < 1024 THEN 0 ELSE 1 + log1024(bytes \div 1024)

\* parseFloat(x.toFixed(2)) printed: two decimals, trailing zeros dropped
fixed2(hundredths) ==
    LET whole == hundredths \div 100
        frac  == hundredths % 100
    IN  numberToString(whole) \o
        (IF frac = 0 THEN <<>>
         ELSE IF frac % 10 = 0 THEN <<".">> \o <<Digits[(frac \div 10) + 1]>>
         ELSE <<".">> \o <<Digits[(frac \div 10) + 1], Digits[(frac % 10) + 1]>>)

formatFileSize(bytes) ==
    IF bytes = 0 THEN <<"0"," ","B","y","t","e","s">>
    ELSE LET e == log1024(bytes)
             unit == pow(1024, e)
             hundredths == (100 * bytes + unit \div 2) \div unit
         IN  fixed2(hundredths) \o <<" ">> \o
             (IF e + 1 <= Len(SizeUnits) THEN SizeUnits[e + 1] ELSE <<"u","n","d","e","f","i","n","e","d">>)

TypeErrorText == <<"F","i","l","e"," ","t","y","p","e"," ","n","o","t"," ","s","u","p","p","o","r","t","e","d","."," ","P","l","e","a","s","e"," ","u","p","l","o","a","d"," ","P","D","F",","," ","T","X","T",","," ","W","o","r","d",","," ","E","x","c","e","l",","," ","o","r"," ","C","S","V"," ","f","i","l","e","s",".">>

SizeErrorText == <<"F","i","l","e"," ","s","i","z","e"," ","e","x","c","e","e","d","s"," ">> \o formatFileSize(MAX_FILE_SIZE) \o <<" ","l","i","m","i","t",".">>

\* { valid, error? }; an absent error is the empty string
validateFile(file) ==
    IF ~validateFileType(file) THEN [valid |-> FALSE, error |-> TypeErrorText]
    ELSE IF ~validateFileSize(file) THEN [valid |-> FALSE, error |-> SizeErrorText]
    ELSE [valid |-> TRUE, error |-> <<>>]

\* variant: one message per failed check instead of one per failing file
RECURSIVE collectErrorsPerCheck(_, _)
collectErrorsPerCheck(errors, fs) ==
    IF fs = <<>> THEN errors
    ELSE LET file == Head(fs)
             typeError == IF validateFileType(file) THEN <<>>
                          ELSE <<file.name \o <<":"," ">> \o TypeErrorText>>
             sizeError == IF validateFileSize(file) THEN <<>>
                          ELSE <<file.name \o <<":"," ">> \o SizeErrorText>>
         IN  collectErrorsPerCheck(errors \o typeError \o sizeError, Tail(fs))

\* the forEach of validateFiles over fs, starting from errors
RECURSIVE collectErrors(_, _)
collectErrors(errors, fs) ==
    IF fs = <<>> THEN errors
    ELSE LET file == Head(fs)
             result == validateFile(file)
         IN  collectErrors(
                 IF ~result.valid /\ Truthy(result.error)
                 THEN Append(errors, file.name \o <<":"," ">> \o result.error)
                 ELSE errors,
                 Tail(fs))

validateFiles(fs) ==
    LET errors == collectErrors(<<>>, fs)
    IN  [valid |-> Len(errors) = 0, errors |-> errors]

----------------------------------------------------------------------------
(* Content preview (file-utils) *)

\* the default value of the parameter maxLength
DEFAULT_MAX_LENGTH == 500

\* variant: a text of exactly maxLength characters is cut as well
createContentPreviewStrict(text, maxLengthArg) ==
    LET max == IF maxLengthArg = <<>> THEN DEFAULT_MAX_LENGTH ELSE maxLengthArg[1]
    IN  IF Len(text) < max THEN text
        ELSE substring(text, 0, max) \o <<".",".",".">>

\* variant: the ellipsis appended to the whole text
createContentPreviewNoCut(text, maxLengthArg) ==
    LET max == IF maxLengthArg = <<>> THEN DEFAULT_MAX_LENGTH ELSE maxLengthArg[1]
    IN  IF Len(text) <= max THEN text
        ELSE text \o <<".",".",".">>

createContentPreview(text, maxLengthArg) ==
    LET max == IF maxLengthArg = <<>> THEN DEFAULT_MAX_LENGTH ELSE maxLengthArg[1]
    IN  IF Len(text) <= max THEN text
        ELSE substring(text, 0, max) \o <<".",".",".">>

----------------------------------------------------------------------------
(* Storage paths (file-utils) *)

\* the characters of the class [a-zA-Z0-9._-]
PathChars ==
    {UpperChars[k] : k \in 1..Len(UpperChars)} \cup {LowerChars[k] : k \in 1..Len(LowerChars)}
        \cup {Digits[k] : k \in 1..Len(Digits)} \cup {".", "_", "-"}

\* variant: only blanks replaced
sanitizeBlanksOnly(filename) ==
    [k \in 1..Len(filename) |-> IF IsSpace(filename[k]) THEN "_" ELSE filename[k]]

\* filename.replace(/[^a-zA-Z0-9._-]/g, '_')
sanitize(filename) ==
    [k \in 1..Len(filename) |-> IF filename[k] \in PathChars THEN filename[k] ELSE "_"]

\* generateStoragePath, timestamp being what Date.now() returns at the call;
\* an absent sessionId is the empty string
generateStoragePath(userId, filename, storageType, sessionId, timestamp) ==
    LET filenameWithTimestamp == numberToString(timestamp) \o <<"_">> \o sanitize(filename)
    IN  IF storageType = "knowledge_base"
        THEN Return(userId \o <<"/","k","n","o","w","l","e","d","g","e","-","b","a","s","e","/">> \o filenameWithTimestamp)
        ELSE IF ~Truthy(sessionId)
             THEN ThrowError(<<"S","e","s","s","i","o","n"," ","I","D"," ","i","s"," ","r","e","q","u","i","r","e","d"," ","f","o","r"," ","c","h","a","t","_","s","e","s","s","i","o","n"," ","s","t","o","r","a","g","e"," ","t","y","p","e">>)
             ELSE Return(userId \o <<"/","s","e","s","s","i","o","n","s","/">> \o sessionId \o <<"/">> \o filenameWithTimestamp)

----------------------------------------------------------------------------
(* Per-format extractors (lib/file-parser.ts).                              *)
(*                                                                         *)
(* A File is [name, type, size, body].  body records what the browser and  *)
(* the decoding libraries yield for the file's bytes:                      *)
(*   fail    "none", "read" (file.arrayBuffer()/file.text() rejects) or    *)
(*           "decode" (the format library rejects the bytes)               *)
(*   isError, message   the value thrown at that point                     *)
(*   text    the bytes decoded as text (file.text())                       *)
(*   pages   pdf.js: per page, the str of each text item                   *)
(*   value   mammoth: result.value                                         *)
(*   sheets  SheetJS: per sheet, <<sheetName, sheet_to_txt(sheet)>>        *)
(*   records csv-parse: the rows, each a sequence of cells                 *)
(***************************************************************************)

failsAt(file, where) == file.body.fail = where

thrownBy(file) == Throw(file.body.isError, file.body.message)

\* lines 33-44: the text of one page from its items
pageTextOf(items) ==
    trim(collapseWhitespace(join(SelectSeq(items, LAMBDA t : Len(trim(t)) > 0), <<" ">>)))

\* variant: a page without text adds nothing
pageBlockSkipEmpty(n, pageText) ==
    IF Len(pageText) > 0
    THEN <<"\n","-","-","-"," ","P","a","g","e"," ">> \o numberToString(n) \o <<" ","-","-","-","\n">> \o pageText \o <<"\n">>
    ELSE <<>>

\* lines 59-64: what page number n adds to fullText
pageBlock(n, pageText) ==
    IF Len(pageText) > 0
    THEN <<"\n","-","-","-"," ","P","a","g","e"," ">> \o numberToString(n) \o <<" ","-","-","-","\n">> \o pageText \o <<"\n">>
    ELSE <<"\n","-","-","-"," ","P","a","g","e"," ">> \o numberToString(n) \o <<" ","-","-","-","\n","[","E","m","p","t","y"," ","p","a","g","e"," ","-"," ","p","o","s","s","i","b","l","y"," ","s","c","a","n","n","e","d"," ","i","m","a","g","e","]","\n">>

\* variant: each page put in front of the pages before it
RECURSIVE pagesFromPrepend(_, _, _)
pagesFromPrepend(fullText, pages, n) ==
    IF n > Len(pages) THEN fullText
    ELSE pagesFromPrepend(pageBlock(n, pageTextOf(pages[n])) \o fullText, pages, n + 1)

\* lines 28-65: fullText after pages n..numPages, starting from fullText
RECURSIVE pagesFrom(_, _, _)
pagesFrom(fullText, pages, n) ==
    IF n > Len(pages) THEN fullText
    ELSE pagesFrom(fullText \o pageBlock(n, pageTextOf(pages[n])), pages, n + 1)

emptyPagesOf(pages) == Cardinality({n \in 1..Len(pages) : Len(pageTextOf(pages[n])) = 0})

ImageOnlyText == <<"T","h","i","s"," ","P","D","F"," ","a","p","p","e","a","r","s"," ","t","o"," ","b","e"," ","i","m","a","g","e","-","b","a","s","e","d"," ","(","s","c","a","n","n","e","d",")","."," ","T","e","x","t"," ","e","x","t","r","a","c","t","i","o","n"," ","r","e","q","u","i","r","e","s"," ","O","C","R","."," ">> \o <<"P","l","e","a","s","e"," ","u","s","e"," ","a"," ","t","e","x","t","-","b","a","s","e","d"," ","P","D","F"," ","o","r"," ","c","o","n","t","a","c","t"," ","s","u","p","p","o","r","t"," ","f","o","r"," ","O","C","R"," ","p","r","o","c","e","s","s","i","n","g",".">>

NoTextText == <<"N","o"," ","t","e","x","t"," ","c","o","n","t","e","n","t"," ","e","x","t","r","a","c","t","e","d"," ","f","r","o","m"," ","P","D","F","."," ","T","h","e"," ","f","i","l","e"," ","m","a","y"," ","b","e"," ","c","o","r","r","u","p","t","e","d"," ","o","r"," ","i","m","a","g","e","-","b","a","s","e","d",".">>

\* variant: no test for a document whose pages are all empty
pdfTryNoImageCheck(file) ==
    IF failsAt(file, "read") \/ failsAt(file, "decode") THEN thrownBy(file)
    ELSE LET result == trim(pagesFrom(<<>>, file.body.pages, 1))
         IN  IF Len(result) = 0 THEN ThrowError(NoTextText)
             ELSE Return(result)

\* the try block of extractTextFromPDF
pdfTry(file) ==
    IF failsAt(file, "read") \/ failsAt(file, "decode") THEN thrownBy(file)
    ELSE LET pages == file.body.pages
             fullText == pagesFrom(<<>>, pages, 1)
             result == trim(fullText)
         IN  IF emptyPagesOf(pages) = Len(pages) THEN ThrowError(ImageOnlyText)
             ELSE IF Len(result) = 0 THEN ThrowError(NoTextText)
             ELSE Return(result)

extractTextFromPDF(file) ==
    rethrowWrapped(<<"F","a","i","l","e","d"," ","t","o"," ","e","x","t","r","a","c","t"," ","t","e","x","t"," ","f","r","o","m"," ","P","D","F",":"," ">>, pdfTry(file))

wordTry(file) ==
    IF failsAt(file, "read") \/ failsAt(file, "decode") THEN thrownBy(file)
    ELSE Return(trim(file.body.value))

extractTextFromWord(file) ==
    rethrowWrapped(<<"F","a","i","l","e","d"," ","t","o"," ","e","x","t","r","a","c","t"," ","t","e","x","t"," ","f","r","o","m"," ","W","o","r","d"," ","d","o","c","u","m","e","n","t",":"," ">>, wordTry(file))

\* lines 135-140: the forEach over workbook.SheetNames
RECURSIVE sheetsFrom(_, _, _)
sheetsFrom(fullText, sheets, n) ==
    IF n > Len(sheets) THEN fullText
    ELSE sheetsFrom(
             fullText \o <<"\n","-","-","-"," ","S","h","e","e","t"," ">> \o numberToString(n) \o <<":"," ">> \o sheets[n][1]
                      \o <<" ","-","-","-","\n">> \o sheets[n][2] \o <<"\n">>,
             sheets, n + 1)

excelTry(file) ==
    IF failsAt(file, "read") \/ failsAt(file, "decode") THEN thrownBy(file)
    ELSE Return(trim(sheetsFrom(<<>>, file.body.sheets, 1)))

extractTextFromExcel(file) ==
    rethrowWrapped(<<"F","a","i","l","e","d"," ","t","o"," ","e","x","t","r","a","c","t"," ","t","e","x","t"," ","f","r","o","m"," ","E","x","c","e","l",":"," ">>, excelTry(file))

\* variant: the rows rendered last to first
formatRecordsReversed(records) ==
    join([n \in 1..Len(records) |->
            IF n = 1 THEN <<"H","e","a","d","e","r","s",":"," ">> \o join(records[Len(records)], <<" ","|"," ">>) \o <<"\n">>
            ELSE join(records[Len(records) + 1 - n], <<" ","|"," ">>)],
         <<"\n">>)

\* variant: the cells joined by a comma
formatRecordsComma(records) ==
    join([n \in 1..Len(records) |->
            IF n = 1 THEN <<"H","e","a","d","e","r","s",":"," ">> \o join(records[n], <<","," ">>) \o <<"\n">>
            ELSE join(records[n], <<","," ">>)],
         <<"\n">>)

\* lines 167-175: records.map(...).join('\n')
formatRecords(records) ==
    join([n \in 1..Len(records) |->
            IF n = 1 THEN <<"H","e","a","d","e","r","s",":"," ">> \o join(records[n], <<" ","|"," ">>) \o <<"\n">>
            ELSE join(records[n], <<" ","|"," ">>)],
         <<"\n">>)

\* Only `await file.text()` runs inside the try block: the promise built at line
\* 156 is returned without await, so its rejection (the parser's 'error' event)
\* passes the catch clause unwrapped.
extractTextFromCSV(file) ==
    IF failsAt(file, "read")
    THEN rethrowWrapped(<<"F","a","i","l","e","d"," ","t","o"," ","e","x","t","r","a","c","t"," ","t","e","x","t"," ","f","r","o","m"," ","C","S","V",":"," ">>, thrownBy(file))
    ELSE IF failsAt(file, "decode") THEN thrownBy(file)
    ELSE Return(formatRecords(file.body.records))

txtTry(file) ==
    IF failsAt(file, "read") THEN thrownBy(file) ELSE Return(file.body.text)

extractTextFromTXT(file) ==
    rethrowWrapped(<<"F","a","i","l","e","d"," ","t","o"," ","r","e","a","d"," ","t","e","x","t"," ","f","i","l","e",":"," ">>, txtTry(file))

\* lines 159-163: parse(text, { trim: true, skip_empty_lines: true }) of
\* csv-parse, for texts whose fields are not quoted: the rows in order, cells
\* trimmed, blank lines skipped; an opening quote that is never closed and a
\* row of another length than the first one make the parser emit 'error'
\* (the message texts stand for the library's)
csvParse(text) ==
    LET lines == SelectSeq(split(text, "\n"), LAMBDA l : Len(trim(l)) > 0)
        rows  == [n \in 1..Len(lines) |->
                    LET cells == split(lines[n], ",")
                    IN  [k \in 1..Len(cells) |-> trim(cells[k])]]
        quotes == {k \in 1..Len(text) : text[k] = "\""}
    IN  IF Cardinality(quotes) % 2 = 1 THEN ThrowError(<<"Q","u","o","t","e"," ","N","o","t"," ","C","l","o","s","e","d">>)
        ELSE IF \E n \in 1..Len(rows) : Len(rows[n]) # Len(rows[1])
             THEN ThrowError(<<"I","n","v","a","l","i","d"," ","R","e","c","o","r","d"," ","L","e","n","g","t","h">>)
        ELSE Return(rows)

----------------------------------------------------------------------------
(* Format dispatcher: parseFile *)

\* variant: the empty type printed as it is
orUnknownAsIs(fileType) == fileType

\* fileType || 'unknown'
orUnknown(fileType) == IF Truthy(fileType) THEN fileType ELSE <<"u","n","k","n","o","w","n">>

\* variant: every MIME type tested before any extension
dispatchMimeFirst(file) ==
    LET fileType == toLowerCase(file.type)
        fileName == toLowerCase(file.name)
    IN  IF fileType = MIME_PDF THEN "PDF"
        ELSE IF fileType = MIME_DOCX \/ fileType = MIME_DOC THEN "Word"
        ELSE IF fileType = MIME_XLSX \/ fileType = MIME_XLS THEN "Excel"
        ELSE IF fileType = MIME_CSV THEN "CSV"
        ELSE IF fileType = MIME_TXT THEN "TXT"
        ELSE IF endsWith(fileName, <<".","p","d","f">>) THEN "PDF"
        ELSE IF endsWith(fileName, <<".","d","o","c","x">>) \/ endsWith(fileName, <<".","d","o","c">>) THEN "Word"
        ELSE IF endsWith(fileName, <<".","x","l","s","x">>) \/ endsWith(fileName, <<".","x","l","s">>) THEN "Excel"
        ELSE IF endsWith(fileName, <<".","c","s","v">>) THEN "CSV"
        ELSE IF \/ endsWith(fileName, <<".","t","x","t">>)
                \/ endsWith(fileName, <<".","m","d">>)
                \/ endsWith(fileName, <<".","j","s","o","n">>) THEN "TXT"
        ELSE "none"

\* variant: the filename compared without toLowerCase
dispatchCaseSensitive(file) ==
    LET fileType == toLowerCase(file.type)
        fileName == file.name
    IN  IF fileType = MIME_PDF \/ endsWith(fileName, <<".","p","d","f">>) THEN "PDF"
        ELSE IF \/ fileType = MIME_DOCX
                \/ fileType = MIME_DOC
                \/ endsWith(fileName, <<".","d","o","c","x">>)
                \/ endsWith(fileName, <<".","d","o","c">>) THEN "Word"
        ELSE IF \/ fileType = MIME_XLSX
                \/ fileType = MIME_XLS
                \/ endsWith(fileName, <<".","x","l","s","x">>)
                \/ endsWith(fileName, <<".","x","l","s">>) THEN "Excel"
        ELSE IF fileType = MIME_CSV \/ endsWith(fileName, <<".","c","s","v">>) THEN "CSV"
        ELSE IF \/ fileType = MIME_TXT
                \/ endsWith(fileName, <<".","t","x","t">>)
                \/ endsWith(fileName, <<".","m","d">>)
                \/ endsWith(fileName, <<".","j","s","o","n">>) THEN "TXT"
        ELSE "none"

\* the if-chain of parseFile: which extractor the file is handed to
dispatch(file) ==
    LET fileType == toLowerCase(file.type)
        fileName == toLowerCase(file.name)
    IN  IF fileType = MIME_PDF \/ endsWith(fileName, <<".","p","d","f">>) THEN "PDF"
        ELSE IF \/ fileType = MIME_DOCX
                \/ fileType = MIME_DOC
                \/ endsWith(fileName, <<".","d","o","c","x">>)
                \/ endsWith(fileName, <<".","d","o","c">>) THEN "Word"
        ELSE IF \/ fileType = MIME_XLSX
                \/ fileType = MIME_XLS
                \/ endsWith(fileName, <<".","x","l","s","x">>)
                \/ endsWith(fileName, <<".","x","l","s">>) THEN "Excel"
        ELSE IF fileType = MIME_CSV \/ endsWith(fileName, <<".","c","s","v">>) THEN "CSV"
        ELSE IF \/ fileType = MIME_TXT
                \/ endsWith(fileName, <<".","t","x","t">>)
                \/ endsWith(fileName, <<".","m","d">>)
                \/ endsWith(fileName, <<".","j","s","o","n">>) THEN "TXT"
        ELSE "none"

unsupported(file) ==
    ThrowError(<<"U","n","s","u","p","p","o","r","t","e","d"," ","f","i","l","e"," ","t","y","p","e",":"," ">> \o orUnknown(toLowerCase(file.type))
               \o <<" ","(">> \o file.name \o <<")">>)

parseFile(file) ==
    LET extractor == dispatch(file)
    IN  CASE extractor = "PDF"   -> extractTextFromPDF(file)
          [] extractor = "Word"  -> extractTextFromWord(file)
          [] extractor = "Excel" -> extractTextFromExcel(file)
          [] extractor = "CSV"   -> extractTextFromCSV(file)
          [] extractor = "TXT"   -> extractTextFromTXT(file)
          [] OTHER               -> unsupported(file)

----------------------------------------------------------------------------
(* Batch orchestrator: parseFiles *)

\* variant: the bare message pushed
sentinelBare(file, c) == messageOf(c)

\* line 277: the sentinel pushed by the catch clause
sentinel(file, c) ==
    <<"[","E","r","r","o","r"," ","p","a","r","s","i","n","g"," ">> \o file.name \o <<":"," ">> \o messageOf(c) \o <<"]">>

\* variant: unshift instead of push
loopBodyPrepend(res, file, settledAs) ==
    IF settledAs.ok THEN Return(<<settledAs.value>> \o res)
    ELSE Return(<<sentinel(file, settledAs)>> \o res)

\* variant: no try/catch around the awaited call
loopBodyNoCatch(res, file, settledAs) ==
    IF settledAs.ok THEN Return(Append(res, settledAs.value)) ELSE settledAs

\* variant: a failure marks the entry of the file after it as failed too
loopBodyCascade(res, file, settledAs) ==
    IF settledAs.ok /\ (res = <<>> \/ ~startsWith(res[Len(res)], <<"[","E","r","r","o","r"," ","p","a","r","s","i","n","g"," ">>))
    THEN Return(Append(res, settledAs.value))
    ELSE Return(Append(res, sentinel(file, settledAs)))

\* lines 264-278: one loop body, given how `await parseFile(file)` settled;
\* returns the new `results`, or throws what leaves the loop body
loopBody(res, file, settledAs) ==
    IF settledAs.ok THEN Return(Append(res, settledAs.value))
    ELSE Return(Append(res, sentinel(file, settledAs)))

\* parseFiles as a function: the loop run from index n with `results` = res
RECURSIVE parseFilesFrom(_, _, _)
parseFilesFrom(res, fs, n) ==
    IF n > Len(fs) THEN Return(res)
    ELSE LET step == loopBody(res, fs[n], parseFile(fs[n]))
         IN  IF step.ok THEN parseFilesFrom(step.value, fs, n + 1) ELSE step

parseFiles(fs) == parseFilesFrom(<<>>, fs, 1)

----------------------------------------------------------------------------
(* The files the model is run on *)

Body(fail, isErr, msg, pages) ==
    [fail |-> fail, isError |-> isErr, message |-> msg,
     text    |-> <<"h","i","\n">>,
     pages   |-> pages,
     value   |-> <<" ","D","e","a","r"," ","a","l","l"," ","\n">>,
     sheets  |-> << <<<<"S","1">>, <<"a","\t","b","\n","1","\t","2">>>> >>,
     records |-> << <<<<"a">>, <<"b">>>>, <<<<"1">>, <<"2">>>> >>]

\* two pages, the second without text
TextPages == << <<<<"H","e","l","l","o">>, <<" ">>, <<"b","i","g"," "," ","w","o","r","l","d">>>>, <<>> >>

\* two pages, none with text
ScannedPages == << <<>>, <<<<" ">>>> >>

GoodBody == Body("none", FALSE, <<>>, TextPages)

ScannedBody == Body("none", FALSE, <<>>, ScannedPages)

UnreadableBody == Body("read", TRUE, <<"T","h","e"," ","f","i","l","e"," ","c","o","u","l","d"," ","n","o","t"," ","b","e"," ","r","e","a","d",".">>, TextPages)

CorruptBody == Body("decode", TRUE, <<"I","n","v","a","l","i","d"," ","s","t","r","u","c","t","u","r","e">>, TextPages)

\* a decoder that throws a value which is no Error
OddBody == Body("decode", FALSE, <<>>, TextPages)

\* a readable document whose own text has the form of an error sentinel
SentinelLikeBody ==
    [GoodBody EXCEPT !.text = <<"[","E","r","r","o","r"," ","p","a","r","s","i","n","g"," ","n",".","t","x","t",":"," ","n","o","n","e","]">>, !.value = <<" ","[","E","r","r","o","r"," ","p","a","r","s","i","n","g"," ","r",".","d","o","c","]"," ">>]

Bodies == {GoodBody, ScannedBody, UnreadableBody, CorruptBody, OddBody, SentinelLikeBody}

File(name, type, size, body) == [name |-> name, type |-> type, size |-> size, body |-> body]

MIME_OCTET == <<"a","p","p","l","i","c","a","t","i","o","n","/","o","c","t","e","t","-","s","t","r","e","a","m">>

MIME_JSON == <<"a","p","p","l","i","c","a","t","i","o","n","/","j","s","o","n">>

Names ==
    {<<"a",".","p","d","f">>, <<"A",".","P","D","F">>, <<"r",".","d","o","c","x">>, <<"R",".","D","o","c">>, <<"s",".","x","l","s","x">>, <<"s",".","x","l","s">>, <<"d",".","c","s","v">>, <<"n",".","t","x","t">>,
     <<"n",".","m","d">>, <<"n",".","j","s","o","n">>, <<"p",".","p","p","t","x">>, <<"p",".","p","p","t">>, <<"x",".","e","x","e">>, <<"n","o","e","x","t">>, <<"a",".","p","d","f",".","t","x","t">>}

Types ==
    {<<>>, MIME_PDF, MIME_TXT, MIME_MD, MIME_CSV, MIME_DOC, MIME_DOCX, MIME_XLS,
     MIME_XLSX, MIME_PPT, MIME_PPTX, MIME_OCTET, MIME_JSON}

Sizes == {1024, MAX_FILE_SIZE, MAX_FILE_SIZE + 1}

\* every combination, for the single-file runs
AllFiles == {File(n, t, s, b) : n \in Names, t \in Types, s \in Sizes, b \in Bodies}

\* the files batches are built from
BatchFiles ==
    {File(<<"n",".","t","x","t">>, MIME_TXT, 1024, GoodBody),
     File(<<"b",".","p","d","f">>, MIME_PDF, 1024, CorruptBody),
     File(<<"p",".","p","p","t","x">>, MIME_PPTX, MAX_FILE_SIZE, GoodBody),
     File(<<"D",".","C","S","V">>, <<>>, MAX_FILE_SIZE + 1, GoodBody),
     File(<<"x",".","e","x","e">>, MIME_OCTET, MAX_FILE_SIZE + 1, GoodBody),
     File(<<"s","c","a","n",".","p","d","f">>, <<>>, 1024, ScannedBody),
     File(<<"o",".","c","s","v">>, MIME_CSV, 1024, OddBody),
     File(<<"n","o","e","x","t">>, MIME_DOC, 1024, UnreadableBody),
     File(<<"d","e","c","k">>, MIME_PPT, 1024, GoodBody),
     File(<<"q",".","p","p","t">>, MIME_TXT, 1024, GoodBody)}

Batches == UNION {[1..n -> BatchFiles] : n \in 0..MaxFiles}

\* the files of the termination runs: one that parses, one that is corrupt,
\* one that is unsupported
FairFiles ==
    {File(<<"n",".","t","x","t">>, MIME_TXT, 1024, GoodBody),
     File(<<"b",".","p","d","f">>, MIME_PDF, 1024, CorruptBody),
     File(<<"x",".","e","x","e">>, MIME_OCTET, MAX_FILE_SIZE + 1, GoodBody)}

FairBatches == UNION {[1..n -> FairFiles] : n \in 0..MaxFiles}

\* the text items of a page: none, a blank one, one word, words and blanks
PageKinds ==
    {<<>>, <<<<" ">>>>, <<<<"H","i">>>>, <<<<"a"," ">>, <<" ">>, <<"b","\n"," ","c">>>>}

\* the documents of the PDF runs: up to MaxPages pages, zero pages included
PdfPages == UNION {[1..n -> PageKinds] : n \in 0..MaxPages}

PdfFiles == {File(<<"d","o","c",".","p","d","f">>, MIME_PDF, 1024, Body("none", FALSE, <<>>, pages)) : pages \in PdfPages}

\* the lines CSV texts are made of: plain rows, cells with blanks around, an
\* empty line, an unclosed quote, a row of three cells
CsvLines ==
    {<<"a",",","b">>, <<"1",",","2">>, <<"3",",","4">>, <<" ","x"," ",","," ","y"," ">>, <<>>, <<"a",",","\"","b">>, <<"1",",","2",",","3">>}

CsvTexts == {join(lines, <<"\n">>) : lines \in UNION {[1..n -> CsvLines] : n \in 0..MaxRows}}

\* what the browser and csv-parse yield for a CSV file holding text
CsvBody(text) ==
    LET parsed == csvParse(text)
    IN  IF parsed.ok
        THEN [Body("none", FALSE, <<>>, <<>>) EXCEPT !.text = text, !.records = parsed.value]
        ELSE [Body("decode", parsed.isError, parsed.message, <<>>) EXCEPT !.text = text]

\* the files of the CSV runs: every text, and a file that cannot be read
CsvFiles ==
    {File(<<"t",".","c","s","v">>, MIME_CSV, 1024, CsvBody(text)) : text \in CsvTexts}
        \cup {File(<<"t",".","c","s","v">>, MIME_CSV, 1024, UnreadableBody)}

\* the characters the preview texts are made of, repeated
TextCycle == <<"a", ".", ".", ".", "b", " ">>

TextOfLen(n) == [k \in 1..n |-> TextCycle[((k - 1) % Len(TextCycle)) + 1]]

\* short texts, and texts around the default maximum length
Texts ==
    {TextOfLen(n) : n \in 0..MaxTextLen}
        \cup {TextOfLen(DEFAULT_MAX_LENGTH + d) : d \in {-1, 0, 1, 3}}

\* the second argument: omitted, or a number (negative ones included)
MaxLengthArgs ==
    {<<>>} \cup {<<n>> : n \in (-2)..(MaxTextLen + 1)} \cup {<<DEFAULT_MAX_LENGTH>>}

----------------------------------------------------------------------------
(* The state machine: one validateFiles call and one parseFiles call on the *)
(* same batch                                                              *)

\* no validateFiles / parseFiles call made yet on batch
ParseIdle(batch) ==
    /\ files = batch
    /\ validation = <<>>
    /\ pc = "idle"
    /\ i = 0
    /\ results = <<>>
    /\ inflight = {}
    /\ settled = {}
    /\ extractors = <<>>
    /\ completions = <<>>
    /\ thrown = <<>>

\* no createContentPreview call under way
PreviewIdle ==
    /\ content = <<>>
    /\ maxLength = <<>>
    /\ preview = <<>>

\* the first clock reading of a run (a small number stands for the milliseconds
\* since 1970)
Epoch == 1700

\* no uploadDocument call made, empty bucket and table
UploadIdle ==
    /\ now = Epoch
    /\ storage = {}
    /\ documents = {}
    /\ calls = <<>>

\* what handleSubmit keeps before it is called
IdleSub ==
    [pc |-> "idle", messageToSend |-> <<>>, filesToProcess |-> <<>>, fileContents |-> <<>>,
     uploads |-> <<>>, documentIds |-> <<>>, sent |-> <<>>, failed |-> FALSE,
     restored |-> FALSE]

\* the chat input as mounted: useState("") / useState([]) / useState(false)
ChatIdle ==
    /\ message = <<>>
    /\ selectedFiles = <<>>
    /\ isParsing = FALSE
    /\ isAIResponding = FALSE
    /\ toast = <<>>
    /\ sub = IdleSub

IdleKb == [pc |-> "idle", files |-> <<>>, extractedTexts |-> <<>>, i |-> 0,
           successCount |-> 0, failCount |-> 0]

\* the knowledge page as mounted
KbIdle ==
    /\ kbSelected = <<>>
    /\ isUploading = FALSE
    /\ kb = IdleKb

InitWith(batch) == ParseIdle(batch) /\ PreviewIdle /\ UploadIdle /\ ChatIdle /\ KbIdle

Init == \E batch \in Batches : InitWith(batch)

InitFair == \E batch \in FairBatches : InitWith(batch)

InitFile == \E file \in AllFiles : InitWith(<<file>>)

InitPdf == \E file \in PdfFiles : InitWith(<<file>>)

InitCsv == \E file \in CsvFiles : InitWith(<<file>>)

\* validateFiles(files): synchronous, one step
ValidateFilesCall ==
    /\ validation = <<>>
    /\ validation' = <<validateFiles(files)>>
    /\ UNCHANGED <<files, pc, i, results, inflight, settled, extractors, completions, thrown>>
    /\ UNCHANGED notParse

\* lines 253-260: parseFiles(files) is called; results = [], i = 0
ParseFilesCall ==
    /\ pc = "idle"
    /\ pc' = "loop"
    /\ i' = 1
    /\ results' = <<>>
    /\ UNCHANGED <<files, validation, inflight, settled, extractors, completions, thrown>>
    /\ UNCHANGED notParse

\* variant: parseFile(files[i]) called without await, the loop goes on at once
BeginExtractNoAwait ==
    /\ pc = "loop"
    /\ i <= Len(files)
    /\ inflight' = inflight \cup {i}
    /\ extractors' = Append(extractors, dispatch(files[i]))
    /\ i' = i + 1
    /\ UNCHANGED <<files, validation, pc, results, settled, completions, thrown>>
    /\ UNCHANGED notParse

\* lines 260-265: the loop test holds, parseFile(files[i]) is called and awaited
BeginExtract ==
    /\ pc = "loop"
    /\ i <= Len(files)
    /\ inflight' = inflight \cup {i}
    /\ extractors' = Append(extractors, dispatch(files[i]))
    /\ pc' = "await"
    /\ UNCHANGED <<files, validation, i, results, settled, completions, thrown>>
    /\ UNCHANGED notParse

\* lines 265-279: the awaited promise settles, the rest of the loop body runs
SettleExtract ==
    /\ pc = "await"
    /\ LET step == loopBody(results, files[i], parseFile(files[i]))
       IN  /\ inflight' = inflight \ {i}
           /\ settled' = settled \cup {i}
           /\ completions' = Append(completions, parseFile(files[i]))
           /\ IF step.ok
              THEN /\ results' = step.value
                   /\ i' = i + 1
                   /\ pc' = "loop"
                   /\ thrown' = thrown
              ELSE /\ pc' = "rejected"
                   /\ thrown' = <<step>>
                   /\ UNCHANGED <<results, i>>
    /\ UNCHANGED <<files, validation, extractors>>
    /\ UNCHANGED notParse

\* lines 260, 300: the loop test fails, parseFiles returns results
ReturnResults ==
    /\ pc = "loop"
    /\ i > Len(files)
    /\ pc' = "done"
    /\ UNCHANGED <<files, validation, i, results, inflight, settled, extractors, completions, thrown>>
    /\ UNCHANGED notParse

Next ==
    \/ ValidateFilesCall
    \/ ParseFilesCall
    \/ BeginExtract
    \/ SettleExtract
    \/ ReturnResults

\* batches of up to MaxFiles files
Spec == Init /\ [][Next]_vars

\* one file, every combination of name, type, size and content
SpecFile == InitFile /\ [][Next]_vars

\* one PDF document, every page sequence
SpecPdf == InitPdf /\ [][Next]_vars

\* one CSV file, every text
SpecCsv == InitCsv /\ [][Next]_vars

----------------------------------------------------------------------------
(* The state machine of one createContentPreview call *)

InitPreview ==
    /\ ParseIdle(<<>>)
    /\ content \in Texts
    /\ maxLength \in MaxLengthArgs
    /\ preview = <<>>
    /\ UploadIdle
    /\ ChatIdle
    /\ KbIdle

\* createContentPreview(content, maxLength): synchronous, one step
CreateContentPreviewCall ==
    /\ preview = <<>>
    /\ preview' = <<createContentPreview(content, maxLength)>>
    /\ UNCHANGED <<content, maxLength>>
    /\ UNCHANGED notPreview

\* createContentPreview applied to its own result, with the same maxLength
CreateContentPreviewAgain ==
    /\ Len(preview) = 1
    /\ preview' = Append(preview, createContentPreview(preview[1], maxLength))
    /\ UNCHANGED <<content, maxLength>>
    /\ UNCHANGED notPreview

NextPreview ==
    \/ CreateContentPreviewCall
    \/ CreateContentPreviewAgain

\* one call and one call on its result, every text and every second argument
SpecPreview == InitPreview /\ [][NextPreview]_vars

----------------------------------------------------------------------------
(* Properties of the batch orchestrator (checked under Spec / FairSpec) *)

\* "[Error parsing <file name>: <error message>]"
ExpectedSentinel(file, c) ==
    <<"[","E","r","r","o","r"," ","p","a","r","s","i","n","g"," ">> \o file.name \o <<":"," ">>
        \o (IF c.isError THEN c.message ELSE <<"U","n","k","n","o","w","n"," ","e","r","r","o","r">>) \o <<"]">>

\* the entry a file is owed: its extracted text, or its error sentinel
ExpectedEntry(file) ==
    LET c == parseFile(file)
    IN  IF c.ok THEN c.value ELSE ExpectedSentinel(file, c)

\* C1: when parseFiles has returned, results is as long as files, and the
\* string at each position is the result (text or sentinel) of the file at
\* that position.
C1_SameLengthSameOrder ==
    pc = "done" =>
        /\ Len(results) = Len(files)
        /\ \A k \in 1..Len(files) : results[k] = ExpectedEntry(files[k])

\* a returned batch of three different files: text, failure, text
C1_Witness ==
    /\ pc = "done"
    /\ Len(files) = 3
    /\ completions[1].ok /\ ~completions[2].ok /\ completions[3].ok
    /\ files[1] # files[3]
    /\ results[1] # results[3]

\* C2: parseFiles never rejects: every failure of parseFile is turned into the
\* sentinel "[Error parsing <name>: <message>]" at that file's position.
C2_FailureBecomesSentinel ==
    /\ pc # "rejected"
    /\ thrown = <<>>
    /\ \A k \in 1..Len(completions) :
          ~completions[k].ok =>
              /\ k <= Len(results)
              /\ results[k] = ExpectedSentinel(files[k], completions[k])

\* a returned batch of an unsupported file, a malformed PDF and a scanned PDF
C2_Witness ==
    /\ pc = "done"
    /\ extractors = <<"none", "PDF", "PDF">>
    /\ files[2].body.fail = "decode"
    /\ files[3].body.fail = "none"
    /\ \A k \in 1..3 : ~completions[k].ok /\ startsWith(results[k], <<"[","E","r","r","o","r"," ","p","a","r","s","i","n","g"," ">>)

\* C3: the string at position k of a batch's result is the string parseFiles
\* returns for the one-file batch of files[k].
C3_FailureIsolating ==
    pc = "done" =>
        /\ Len(results) = Len(files)
        /\ \A k \in 1..Len(files) :
              LET alone == parseFiles(<<files[k]>>)
              IN  alone.ok /\ Len(alone.value) = 1 /\ results[k] = alone.value[1]

\* the same valid file before and after a corrupt one
C3_Witness ==
    /\ pc = "done"
    /\ Len(files) = 3
    /\ files[1] = files[3]
    /\ completions[1].ok
    /\ files[2].body.fail = "decode" /\ ~completions[2].ok
    /\ results[3] = results[1]

\* C4: at most one file of a batch is being extracted at any time, and the
\* extraction of a file has begun only if that of every file before it has
\* completed.
C4_OneAtATime ==
    /\ Cardinality(inflight) <= 1
    /\ \A k \in inflight \cup settled : \A j \in 1..(k - 1) : j \in settled

\* the second file is being extracted, after the first one failed
C4_Witness ==
    /\ inflight = {2}
    /\ settled = {1}
    /\ ~completions[1].ok

\* C5: if every extraction settles, a started parseFiles call returns, with
\* every file of the batch processed.
C5_BatchCompletes ==
    (pc = "loop") ~>
        (pc = "done" /\ settled = 1..Len(files) /\ Len(results) = Len(files))

\* a batch whose first file failed has returned with all three files processed
C5_Witness ==
    /\ pc = "done"
    /\ settled = {1, 2, 3}
    /\ ~completions[1].ok
    /\ Len(results) = 3

----------------------------------------------------------------------------
(* Properties of the validator (checked under Spec) *)

C6_AllowedTypes ==
    {<<"a","p","p","l","i","c","a","t","i","o","n","/","p","d","f">>, <<"t","e","x","t","/","p","l","a","i","n">>, <<"t","e","x","t","/","m","a","r","k","d","o","w","n">>, <<"t","e","x","t","/","c","s","v">>,
     <<"a","p","p","l","i","c","a","t","i","o","n","/","m","s","w","o","r","d">>,
     <<"a","p","p","l","i","c","a","t","i","o","n","/","v","n","d",".","o","p","e","n","x","m","l","f","o","r","m","a","t","s","-","o","f","f","i","c","e","d","o","c","u","m","e","n","t",".","w","o","r","d","p","r","o","c","e","s","s","i","n","g","m","l",".","d","o","c","u","m","e","n","t">>,
     <<"a","p","p","l","i","c","a","t","i","o","n","/","v","n","d",".","m","s","-","e","x","c","e","l">>,
     <<"a","p","p","l","i","c","a","t","i","o","n","/","v","n","d",".","o","p","e","n","x","m","l","f","o","r","m","a","t","s","-","o","f","f","i","c","e","d","o","c","u","m","e","n","t",".","s","p","r","e","a","d","s","h","e","e","t","m","l",".","s","h","e","e","t">>,
     <<"a","p","p","l","i","c","a","t","i","o","n","/","v","n","d",".","m","s","-","p","o","w","e","r","p","o","i","n","t">>,
     <<"a","p","p","l","i","c","a","t","i","o","n","/","v","n","d",".","o","p","e","n","x","m","l","f","o","r","m","a","t","s","-","o","f","f","i","c","e","d","o","c","u","m","e","n","t",".","p","r","e","s","e","n","t","a","t","i","o","n","m","l",".","p","r","e","s","e","n","t","a","t","i","o","n">>}

C6_AllowedExtensions ==
    {<<".","p","d","f">>, <<".","t","x","t">>, <<".","m","d">>, <<".","c","s","v">>, <<".","d","o","c">>, <<".","d","o","c","x">>, <<".","x","l","s">>, <<".","x","l","s","x">>,
     <<".","p","p","t">>, <<".","p","p","t","x">>}

\* the type predicate: declared MIME type or filename extension in the allow-list
C6_TypeOK(file) ==
    \/ toLowerCase(file.type) \in C6_AllowedTypes
    \/ \E ext \in C6_AllowedExtensions : endsWith(toLowerCase(file.name), ext)

\* the size predicate: at most 10 MiB
C6_SizeOK(file) == file.size <= 10 * 1024 * 1024

C6_Passes(file) == C6_TypeOK(file) /\ C6_SizeOK(file)

C7_Reasons == {TypeErrorText, SizeErrorText}

\* C7: errors holds one message per failing file, in input order, of the form
\* "<filename>: <reason>"; a file failing both checks has one message, a
\* passing file none.
C7_OneMessagePerFailingFile ==
    validation # <<>> =>
        LET errors == validation[1].errors
            failing == SelectSeq(files, LAMBDA f : ~C6_Passes(f))
        IN  /\ Len(errors) = Len(failing)
            /\ \A k \in 1..Len(failing) :
                  \E reason \in C7_Reasons : errors[k] = failing[k].name \o <<":"," ">> \o reason

\* a file failing both checks, a passing file, a file failing the size check
C7_Witness ==
    /\ validation # <<>>
    /\ Len(files) = 3
    /\ ~C6_TypeOK(files[1]) /\ ~C6_SizeOK(files[1])
    /\ C6_Passes(files[2])
    /\ C6_TypeOK(files[3]) /\ ~C6_SizeOK(files[3])
    /\ Len(validation[1].errors) = 2

----------------------------------------------------------------------------
(* Properties of the dispatcher (checked under SpecFile) *)

\* the type -> extractor table
C8_ByMimeType(type) ==
    CASE type = <<"a","p","p","l","i","c","a","t","i","o","n","/","p","d","f">> -> "PDF"
      [] type \in {<<"a","p","p","l","i","c","a","t","i","o","n","/","v","n","d",".","o","p","e","n","x","m","l","f","o","r","m","a","t","s","-","o","f","f","i","c","e","d","o","c","u","m","e","n","t",".","w","o","r","d","p","r","o","c","e","s","s","i","n","g","m","l",".","d","o","c","u","m","e","n","t">>,
                   <<"a","p","p","l","i","c","a","t","i","o","n","/","m","s","w","o","r","d">>} -> "Word"
      [] type \in {<<"a","p","p","l","i","c","a","t","i","o","n","/","v","n","d",".","o","p","e","n","x","m","l","f","o","r","m","a","t","s","-","o","f","f","i","c","e","d","o","c","u","m","e","n","t",".","s","p","r","e","a","d","s","h","e","e","t","m","l",".","s","h","e","e","t">>,
                   <<"a","p","p","l","i","c","a","t","i","o","n","/","v","n","d",".","m","s","-","e","x","c","e","l">>} -> "Excel"
      [] type = <<"t","e","x","t","/","c","s","v">> -> "CSV"
      [] type = <<"t","e","x","t","/","p","l","a","i","n">> -> "TXT"
      [] OTHER -> "none"

\* the extension groups, in order, matched case-insensitively
C9_ByExtension(name) ==
    LET n == toLowerCase(name)
    IN  IF endsWith(n, <<".","p","d","f">>) THEN "PDF"
        ELSE IF endsWith(n, <<".","d","o","c","x">>) \/ endsWith(n, <<".","d","o","c">>) THEN "Word"
        ELSE IF endsWith(n, <<".","x","l","s","x">>) \/ endsWith(n, <<".","x","l","s">>) THEN "Excel"
        ELSE IF endsWith(n, <<".","c","s","v">>) THEN "CSV"
        ELSE IF endsWith(n, <<".","t","x","t">>) \/ endsWith(n, <<".","m","d">>) \/ endsWith(n, <<".","j","s","o","n">>) THEN "TXT"
        ELSE "none"

\* the order in which parseFile tests the formats
C8_Rank(extractor) ==
    CASE extractor = "PDF" -> 1
      [] extractor = "Word" -> 2
      [] extractor = "Excel" -> 3
      [] extractor = "CSV" -> 4
      [] extractor = "TXT" -> 5
      [] OTHER -> 6

\* C8 as stated: a declared MIME type that matches the table selects its
\* extractor whatever the filename extension is.
C8_MimeTypeFirst ==
    \A k \in 1..Len(extractors) :
        LET byType == C8_ByMimeType(toLowerCase(files[k].type))
        IN  byType # "none" => extractors[k] = byType

\* C8 amended: a declared MIME type that matches the table selects its
\* extractor unless the filename has an extension of a format parseFile tests
\* earlier (PDF, Word, Excel, CSV, plain text), which then wins.
C8_EarlierFormatWins ==
    \A k \in 1..Len(extractors) :
        LET byType == C8_ByMimeType(toLowerCase(files[k].type))
            byName == C9_ByExtension(files[k].name)
        IN  byType # "none" =>
                extractors[k] = IF C8_Rank(byName) < C8_Rank(byType) THEN byName ELSE byType

\* a file declared text/csv and named a.pdf has gone to the PDF extractor
C8_Witness ==
    /\ Len(extractors) = 1
    /\ files[1].type = <<"t","e","x","t","/","c","s","v">>
    /\ files[1].name = <<"a",".","p","d","f">>
    /\ extractors[1] = "PDF"

\* C9: when the declared MIME type matches no extractor, the extractor is the
\* one of the first extension group the filename matches, case-insensitively.
C9_ExtensionFallback ==
    \A k \in 1..Len(extractors) :
        LET byName == C9_ByExtension(files[k].name)
        IN  (C8_ByMimeType(toLowerCase(files[k].type)) = "none" /\ byName # "none")
                => extractors[k] = byName

\* R.Doc declared application/octet-stream has gone to the Word extractor
C9_Witness ==
    /\ Len(extractors) = 1
    /\ files[1].type = <<"a","p","p","l","i","c","a","t","i","o","n","/","o","c","t","e","t","-","s","t","r","e","a","m">>
    /\ files[1].name = <<"R",".","D","o","c">>
    /\ extractors[1] = "Word"

\* C10: when neither the MIME type nor the extension matches, parseFile throws
\* an Error whose message carries the MIME type ('unknown' when empty) and the
\* original filename, and returns no text.
C10_UnsupportedFormatFails ==
    \A k \in 1..Len(completions) :
        (/\ C8_ByMimeType(toLowerCase(files[k].type)) = "none"
         /\ C9_ByExtension(files[k].name) = "none")
            => /\ ~completions[k].ok
               /\ completions[k].isError
               /\ completions[k].message =
                      <<"U","n","s","u","p","p","o","r","t","e","d"," ","f","i","l","e"," ","t","y","p","e",":"," ">>
                          \o (IF files[k].type = <<>> THEN <<"u","n","k","n","o","w","n">> ELSE files[k].type)
                          \o <<" ","(">> \o files[k].name \o <<")">>

\* a file without extension and without type has failed with 'unknown'
C10_Witness ==
    /\ Len(completions) = 1
    /\ files[1].type = <<>>
    /\ files[1].name = <<"n","o","e","x","t">>
    /\ ~completions[1].ok
    /\ completions[1].message = <<"U","n","s","u","p","p","o","r","t","e","d"," ","f","i","l","e"," ","t","y","p","e",":"," ","u","n","k","n","o","w","n"," ","(","n","o","e","x","t",")">>

----------------------------------------------------------------------------
(* PowerPoint: allowed by the validator, without extractor (checked under Spec) *)

\* PowerPoint MIME type or .ppt/.pptx extension
C11_IsPowerPoint(file) ==
    \/ toLowerCase(file.type) \in
          {<<"a","p","p","l","i","c","a","t","i","o","n","/","v","n","d",".","m","s","-","p","o","w","e","r","p","o","i","n","t">>,
           <<"a","p","p","l","i","c","a","t","i","o","n","/","v","n","d",".","o","p","e","n","x","m","l","f","o","r","m","a","t","s","-","o","f","f","i","c","e","d","o","c","u","m","e","n","t",".","p","r","e","s","e","n","t","a","t","i","o","n","m","l",".","p","r","e","s","e","n","t","a","t","i","o","n">>}
    \/ endsWith(toLowerCase(file.name), <<".","p","p","t">>)
    \/ endsWith(toLowerCase(file.name), <<".","p","p","t","x">>)

\* neither the declared type nor the extension names a format with an extractor
C11_NoExtractorMatches(file) ==
    /\ C8_ByMimeType(toLowerCase(file.type)) = "none"
    /\ C9_ByExtension(file.name) = "none"

\* what C11 says of the file at position k
C11_HoldsAt(k) ==
    /\ validation # <<>> =>
          \A n \in 1..Len(validation[1].errors) :
              ~startsWith(validation[1].errors[n], files[k].name \o <<":"," ">>)
    /\ pc # "rejected"
    /\ k <= Len(completions) =>
          /\ ~completions[k].ok
          /\ startsWith(completions[k].message, <<"U","n","s","u","p","p","o","r","t","e","d"," ","f","i","l","e"," ","t","y","p","e",":"," ">>)
          /\ results[k] = <<"[","E","r","r","o","r"," ","p","a","r","s","i","n","g"," ">> \o files[k].name \o <<":"," ">>
                              \o completions[k].message \o <<"]">>
    /\ pc = "done" =>
          /\ Len(results) = Len(files)
          /\ \A j \in 1..Len(files) : results[j] = ExpectedEntry(files[j])

\* C11 as stated: every file with a PowerPoint MIME type or a .ppt/.pptx
\* extension within the size limit is accepted by validateFiles and yields the
\* unsupported-format sentinel at its position, the other files being
\* extracted as usual.
C11_PowerPointUnsupported ==
    \A k \in 1..Len(files) :
        (C11_IsPowerPoint(files[k]) /\ files[k].size <= MAX_FILE_SIZE) => C11_HoldsAt(k)

\* C11 amended: the same, for the PowerPoint files whose declared type and
\* extension match no extractor.
C11_PowerPointWithoutOtherFormat ==
    \A k \in 1..Len(files) :
        (/\ C11_IsPowerPoint(files[k])
         /\ files[k].size <= MAX_FILE_SIZE
         /\ C11_NoExtractorMatches(files[k])) => C11_HoldsAt(k)

\* a validated and returned batch: text, PowerPoint sentinel, text
C11_Witness ==
    /\ pc = "done"
    /\ validation # <<>>
    /\ Len(files) = 3
    /\ files[2].name = <<"p",".","p","p","t","x">>
    /\ completions[1].ok /\ completions[3].ok
    /\ results[2] = <<"[","E","r","r","o","r"," ","p","a","r","s","i","n","g"," ","p",".","p","p","t","x",":"," ","U","n","s","u","p","p","o","r","t","e","d"," ","f","i","l","e"," ","t","y","p","e",":"," ","a","p","p","l","i","c","a","t","i","o","n","/","v","n","d",".","o","p","e","n","x","m","l","f","o","r","m","a","t","s","-","o","f","f","i","c","e","d","o","c","u","m","e","n","t",".","p","r","e","s","e","n","t","a","t","i","o","n","m","l",".","p","r","e","s","e","n","t","a","t","i","o","n"," ","(","p",".","p","p","t","x",")","]">>
    /\ Len(validation[1].errors) = 0

----------------------------------------------------------------------------
(* Properties of the content preview (checked under SpecPreview) *)

\* the maximum length in force: the argument, 500 when it is omitted
C12_MaxLength == IF maxLength = <<>> THEN 500 ELSE maxLength[1]

\* the first n characters of text (none when n is not positive)
C12_FirstChars(text, n) == [k \in 1..n |-> text[k]]

\* C12: createContentPreview returns the text unchanged when its length is at
\* most maxLength, and otherwise its first maxLength characters followed by
\* "..."; maxLength is 500 when omitted.
C12_UnchangedOrCut ==
    preview # <<>> =>
        IF Len(content) <= C12_MaxLength
        THEN preview[1] = content
        ELSE preview[1] = C12_FirstChars(content, C12_MaxLength) \o <<".", ".", ".">>

\* a text of 501 characters cut at the default length
C12_Witness ==
    /\ preview # <<>>
    /\ maxLength = <<>>
    /\ Len(content) = 501
    /\ Len(preview[1]) = 503
    /\ SubSeq(preview[1], 1, 500) = SubSeq(content, 1, 500)

\* C13 as stated: for every text and every maximum length the preview has at
\* most maxLength + 3 characters.
C13_AtMostThreeMore ==
    preview # <<>> => Len(preview[1]) <= C12_MaxLength + 3

\* C13 amended: for every text and every maximum length that is not negative
\* the preview has at most maxLength + 3 characters.
C13_AtMostThreeMoreNonNegative ==
    (preview # <<>> /\ C12_MaxLength >= 0) => Len(preview[1]) <= C12_MaxLength + 3

\* a cut text whose preview has exactly maxLength + 3 characters
C13_Witness ==
    /\ preview # <<>>
    /\ maxLength # <<>>
    /\ maxLength[1] >= 0
    /\ Len(content) > maxLength[1]
    /\ Len(preview[1]) = maxLength[1] + 3

----------------------------------------------------------------------------
(* Properties of the PDF extractor (checked under SpecPdf) *)

\* the pages of the document under extraction
C14_Pages == files[1].body.pages

C14_HasText(items) == Len(pageTextOf(items)) > 0

\* "--- Page n ---"
C14_Marker(n) == <<"-","-","-"," ","P","a","g","e"," ">> \o numberToString(n) \o <<" ","-","-","-">>

\* the places where pattern occurs in text
C14_Occurrences(text, pattern) ==
    {k \in 1..(Len(text) - Len(pattern) + 1) :
        SubSeq(text, k, k + Len(pattern) - 1) = pattern}

\* C14: for a PDF of N >= 1 pages that all have text, the output is the N
\* page markers "--- Page i ---", i = 1..N in ascending order, each followed by
\* the text of page i, and holds no other marker.
C14_OneMarkerPerPageInOrder ==
    (/\ Len(completions) = 1
     /\ Len(C14_Pages) >= 1
     /\ \A n \in 1..Len(C14_Pages) : C14_HasText(C14_Pages[n]))
        => /\ completions[1].ok
           /\ completions[1].value =
                  join([n \in 1..Len(C14_Pages) |->
                           C14_Marker(n) \o <<"\n">> \o pageTextOf(C14_Pages[n])],
                       <<"\n","\n">>)
           /\ Cardinality(C14_Occurrences(completions[1].value, <<"-","-","-"," ","P","a","g","e"," ">>)) = Len(C14_Pages)

\* three pages with different texts extracted
C14_Witness ==
    /\ Len(completions) = 1
    /\ completions[1].ok
    /\ Len(C14_Pages) = 3
    /\ \A n \in 1..3 : C14_HasText(C14_Pages[n])
    /\ C14_Pages[1] # C14_Pages[3]

\* C15: in a successful extraction every page without text has its own page
\* marker followed by "[Empty page - possibly scanned image]", and the output
\* holds as many page markers as the document has pages.
C15_EmptyPagesMarked ==
    (Len(completions) = 1 /\ completions[1].ok) =>
        /\ Cardinality(C14_Occurrences(completions[1].value, <<"-","-","-"," ","P","a","g","e"," ">>)) = Len(C14_Pages)
        /\ \A n \in 1..Len(C14_Pages) :
              /\ C14_Occurrences(completions[1].value, C14_Marker(n)) # {}
              /\ ~C14_HasText(C14_Pages[n]) =>
                    C14_Occurrences(completions[1].value,
                        C14_Marker(n) \o <<"\n","[","E","m","p","t","y"," ","p","a","g","e"," ","-"," ","p","o","s","s","i","b","l","y"," ","s","c","a","n","n","e","d"," ","i","m","a","g","e","]">>) # {}

\* a document extracted whose first and last pages have no text
C15_Witness ==
    /\ Len(completions) = 1
    /\ completions[1].ok
    /\ Len(C14_Pages) = 3
    /\ ~C14_HasText(C14_Pages[1])
    /\ C14_HasText(C14_Pages[2])
    /\ ~C14_HasText(C14_Pages[3])

\* C16: a PDF with at least one page whose pages all lack text fails with the
\* image-only (OCR required) error and never returns text.
C16_ImageOnlyFails ==
    (/\ Len(completions) = 1
     /\ Len(C14_Pages) >= 1
     /\ \A n \in 1..Len(C14_Pages) : ~C14_HasText(C14_Pages[n]))
        => /\ ~completions[1].ok
           /\ completions[1].isError
           /\ completions[1].message =
                  <<"F","a","i","l","e","d"," ","t","o"," ","e","x","t","r","a","c","t"," ","t","e","x","t"," ","f","r","o","m"," ","P","D","F",":"," ","T","h","i","s"," ","P","D","F"," ","a","p","p","e","a","r","s"," ","t","o"," ","b","e"," ","i","m","a","g","e","-","b","a","s","e","d"," ","(","s","c","a","n","n","e","d",")","."," ","T","e","x","t"," ","e","x","t","r","a","c","t","i","o","n"," ","r","e","q","u","i","r","e","s"," ","O","C","R","."," ","P","l","e","a","s","e"," ","u","s","e"," ","a"," ","t","e","x","t","-","b","a","s","e","d"," ","P","D","F"," ","o","r"," ","c","o","n","t","a","c","t"," ","s","u","p","p","o","r","t"," ","f","o","r"," ","O","C","R"," ","p","r","o","c","e","s","s","i","n","g",".">>

\* a document of two pages without text has failed
C16_Witness ==
    /\ Len(completions) = 1
    /\ Len(C14_Pages) = 2
    /\ C14_Pages[1] # C14_Pages[2]
    /\ \A n \in 1..2 : ~C14_HasText(C14_Pages[n])
    /\ ~completions[1].ok

\* C17: extractTextFromPDF never returns the empty string; when the trimmed
\* output is empty and the document is not one of image-only pages (one page at
\* least, all without text), it fails with the no-extractable-text error.
C17_EmptyOutputIsNoText ==
    Len(completions) = 1 =>
        /\ completions[1].ok => Len(completions[1].value) > 0
        /\ (/\ Len(trim(pagesFrom(<<>>, C14_Pages, 1))) = 0
            /\ ~(/\ Len(C14_Pages) >= 1
                 /\ \A n \in 1..Len(C14_Pages) : ~C14_HasText(C14_Pages[n])))
              => /\ ~completions[1].ok
                 /\ completions[1].message =
                        <<"F","a","i","l","e","d"," ","t","o"," ","e","x","t","r","a","c","t"," ","t","e","x","t"," ","f","r","o","m"," ","P","D","F",":"," ","N","o"," ","t","e","x","t"," ","c","o","n","t","e","n","t"," ","e","x","t","r","a","c","t","e","d"," ","f","r","o","m"," ","P","D","F","."," ","T","h","e"," ","f","i","l","e"," ","m","a","y"," ","b","e"," ","c","o","r","r","u","p","t","e","d"," ","o","r"," ","i","m","a","g","e","-","b","a","s","e","d",".">>

----------------------------------------------------------------------------
(* Properties of the CSV extractor (checked under SpecCsv) *)

\* the rows csv-parse yields for the file under extraction
C18_Records == files[1].body.records

\* a row as rendered: cells joined by " | ", "Headers: " before the first row
C18_Row(n) ==
    (IF n = 1 THEN <<"H","e","a","d","e","r","s",":"," ">> ELSE <<>>) \o join(C18_Records[n], <<" ","|"," ">>)

\* the lines of text that are not empty, in order
C18_Lines(text) == SelectSeq(split(text, "\n"), LAMBDA l : l # <<>>)

\* C18: the text "a,b\n1,2\n3,4" yields the first line "Headers: a | b", then
\* "1 | 2", then "3 | 4"; in general the rendered rows come in the order of the
\* parsed rows.
C18_RowsInParsedOrder ==
    Len(completions) = 1 =>
        /\ files[1].body.text = <<"a",",","b","\n","1",",","2","\n","3",",","4">> =>
              /\ completions[1].ok
              /\ split(completions[1].value, "\n")[1] = <<"H","e","a","d","e","r","s",":"," ","a"," ","|"," ","b">>
              /\ C18_Lines(completions[1].value) = <<<<"H","e","a","d","e","r","s",":"," ","a"," ","|"," ","b">>, <<"1"," ","|"," ","2">>, <<"3"," ","|"," ","4">>>>
        /\ completions[1].ok =>
              C18_Lines(completions[1].value) = [n \in 1..Len(C18_Records) |-> C18_Row(n)]

\* the text of the example has been extracted
C18_Witness ==
    /\ Len(completions) = 1
    /\ files[1].body.text = <<"a",",","b","\n","1",",","2","\n","3",",","4">>
    /\ completions[1].ok
    /\ Len(C18_Records) = 3

\* C19 as stated: the rows are rendered alike but for the "Headers: " prefix
\* and separated by exactly one line break: one line per parsed row.
C19_OneLinePerRow ==
    (Len(completions) = 1 /\ completions[1].ok) =>
        completions[1].value = join([n \in 1..Len(C18_Records) |-> C18_Row(n)], <<"\n">>)

\* C19 amended: the rows are rendered alike but for the "Headers: " prefix; the
\* header line is followed by two line breaks (one when there is no data row),
\* the data rows are separated by exactly one line break.
C19_BlankLineAfterHeader ==
    (Len(completions) = 1 /\ completions[1].ok) =>
        completions[1].value =
            IF Len(C18_Records) = 0 THEN <<>>
            ELSE IF Len(C18_Records) = 1 THEN C18_Row(1) \o <<"\n">>
            ELSE C18_Row(1) \o <<"\n","\n">>
                     \o join([n \in 1..(Len(C18_Records) - 1) |-> C18_Row(n + 1)], <<"\n">>)

\* a header and two data rows extracted: four lines, the second one empty
C19_Witness ==
    /\ Len(completions) = 1
    /\ completions[1].ok
    /\ Len(C18_Records) = 3
    /\ Len(split(completions[1].value, "\n")) = 4
    /\ split(completions[1].value, "\n")[2] = <<>>

\* C20: every failure of extractTextFromCSV, the parser's error event
\* included, reaches the caller as "Failed to extract text from CSV: <reason>".
C20_EveryFailureWrapped ==
    (Len(completions) = 1 /\ ~completions[1].ok) =>
        /\ completions[1].isError
        /\ startsWith(completions[1].message, <<"F","a","i","l","e","d"," ","t","o"," ","e","x","t","r","a","c","t"," ","t","e","x","t"," ","f","r","o","m"," ","C","S","V",":"," ">>)

----------------------------------------------------------------------------
(* The sentinel form and the agreement of validator and dispatcher (checked *)
(* under SpecFile)                                                          *)

\* C26 as stated: an element of the result begins with "[Error parsing " if
\* and only if the extraction of its file failed.
C26_SentinelIffFailed ==
    \A k \in 1..Len(results) :
        startsWith(results[k], <<"[","E","r","r","o","r"," ","p","a","r","s","i","n","g"," ">>) <=> ~completions[k].ok

\* the document's own text as the plain-text and Word extractors return it
C26_OwnText(file, extractor) ==
    IF extractor = "TXT" THEN file.body.text
    ELSE IF extractor = "Word" THEN trim(file.body.value)
    ELSE <<>>

\* C26 amended: the element of a failed extraction begins with
\* "[Error parsing "; the element of a successful one is the extracted text and
\* begins with it only when the text of the document itself does.
C26_SentinelUnlessOwnText ==
    \A k \in 1..Len(results) :
        /\ ~completions[k].ok => startsWith(results[k], <<"[","E","r","r","o","r"," ","p","a","r","s","i","n","g"," ">> \o files[k].name \o <<":"," ">>)
        /\ completions[k].ok =>
              /\ results[k] = completions[k].value
              /\ startsWith(results[k], <<"[","E","r","r","o","r"," ","p","a","r","s","i","n","g"," ">>) =>
                    startsWith(C26_OwnText(files[k], extractors[k]), <<"[","E","r","r","o","r"," ","p","a","r","s","i","n","g"," ">>)

\* a plain-text file whose text looks like a sentinel has been extracted
C26_Witness ==
    /\ Len(results) = 1
    /\ completions[1].ok
    /\ extractors[1] = "TXT"
    /\ startsWith(results[1], <<"[","E","r","r","o","r"," ","p","a","r","s","i","n","g"," ">>)

\* C27: a file that validateFile accepts and that is no PowerPoint file is
\* routed by parseFile to an extractor: it does not fail as unsupported.
C27_AcceptedIsRouted ==
    \A k \in 1..Len(completions) :
        (C6_Passes(files[k]) /\ ~C11_IsPowerPoint(files[k]))
            => /\ extractors[k] # "none"
               /\ ~startsWith(completions[k].message, <<"U","n","s","u","p","p","o","r","t","e","d"," ","f","i","l","e"," ","t","y","p","e",":"," ">>)

----------------------------------------------------------------------------
(* Idempotence of the content preview (checked under SpecPreview) *)

\* C30: for a maximum length that is not negative, the preview of a preview
\* is that preview.
C30_Idempotent ==
    (Len(preview) = 2 /\ C12_MaxLength >= 0) => preview[2] = preview[1]

\* a cut text previewed twice with the same length
C30_Witness ==
    /\ Len(preview) = 2
    /\ maxLength = <<2>>
    /\ Len(content) = 5
    /\ Len(preview[1]) = 5
    /\ preview[1] # content

----------------------------------------------------------------------------
(* uploadDocument (documents/actions): two calls running concurrently for  *)
(* the same user, each await being a point where the other may run.        *)
(* revalidatePath changes nothing the model keeps.                         *)

\* the calls under way
Calls == {1, 2}

UploadNames == {<<"a"," ","b",".","t","x","t">>, <<"a","_","b",".","t","x","t">>, <<"r","/","#","1",".","p","d","f">>}

\* storageType and sessionId (empty: absent)
UploadKinds ==
    {[storageType |-> "knowledge_base", sessionId |-> <<>>],
     [storageType |-> "chat_session",   sessionId |-> <<"s","1">>],
     [storageType |-> "chat_session",   sessionId |-> <<>>]}

\* a call of uploadDocument(file, extractedText, storageType, sessionId) at its start
NewCall(file, extractedText, kind) ==
    [file |-> file, extractedText |-> extractedText,
     storageType |-> kind.storageType, sessionId |-> kind.sessionId,
     pc |-> "start", user |-> <<>>, storagePath |-> <<>>,
     uploaded |-> FALSE, dbError |-> <<>>, cleanup |-> "none", result |-> <<>>]

\* { error, data: null }
Failed(error) == [error |-> error, data |-> <<>>]

\* the row uploadDocument inserts (lines 54-63)
DocumentRow(call) ==
    [user_id |-> call.user,
     session_id |-> IF call.storageType = "chat_session" THEN call.sessionId ELSE <<>>,
     file_name |-> call.file.name,
     file_path |-> call.storagePath,
     file_type |-> call.file.type,
     file_size |-> call.file.size,
     content_preview |-> createContentPreview(call.extractedText, <<500>>),
     storage_type |-> call.storageType]

InitUpload ==
    /\ ParseIdle(<<>>)
    /\ PreviewIdle
    /\ ChatIdle
    /\ KbIdle
    /\ now = Epoch
    /\ storage = {}
    /\ documents = {}
    /\ calls \in [Calls ->
                    {NewCall(File(name, MIME_TXT, 1024, GoodBody), <<"h","i","\n">>, kind) :
                        name \in UploadNames, kind \in UploadKinds}]

\* time passes
Tick ==
    /\ now < Epoch + MaxTicks
    /\ now' = now + 1
    /\ UNCHANGED <<storage, documents, calls>>
    /\ UNCHANGED notUpload

\* lines 24-46: getUser settles; without user the call returns, otherwise the
\* path is generated (line 179 reads the clock) and the storage upload is issued
GetUserSettles(c) ==
    /\ calls[c].pc = "start"
    /\ \E user \in {<<>>, <<"u","1">>} :
          IF user = <<>>
          THEN calls' = [calls EXCEPT ![c].pc = "done",
                                      ![c].result = <<Failed(<<"N","o","t"," ","a","u","t","h","e","n","t","i","c","a","t","e","d">>)>>]
          ELSE LET path == generateStoragePath(user, calls[c].file.name,
                               calls[c].storageType, calls[c].sessionId, now)
               IN  IF path.ok
                   THEN calls' = [calls EXCEPT ![c].pc = "uploading",
                                               ![c].user = user,
                                               ![c].storagePath = path.value]
                   ELSE calls' = [calls EXCEPT
                            ![c].pc = "done",
                            ![c].user = user,
                            ![c].result = <<Failed(IF path.isError THEN path.message
                                                   ELSE <<"F","a","i","l","e","d"," ","t","o"," ","u","p","l","o","a","d"," ","d","o","c","u","m","e","n","t">>)>>]
    /\ UNCHANGED <<now, storage, documents>>
    /\ UNCHANGED notUpload

\* lines 42-65: the storage upload settles (upsert: false, a taken path is an
\* error); on error the call returns, otherwise the row insert is issued
UploadSettles(c) ==
    /\ calls[c].pc = "uploading"
    /\ LET taken == \E object \in storage : object.path = calls[c].storagePath
       IN  \E outcome \in (IF taken THEN {"exists"} ELSE {"stored", "failed"}) :
              CASE outcome = "stored" ->
                      /\ storage' = storage \cup {[path |-> calls[c].storagePath, by |-> c]}
                      /\ calls' = [calls EXCEPT ![c].pc = "inserting", ![c].uploaded = TRUE]
                [] outcome = "exists" ->
                      /\ storage' = storage
                      /\ calls' = [calls EXCEPT ![c].pc = "done",
                                      ![c].result = <<Failed(<<"T","h","e"," ","r","e","s","o","u","r","c","e"," ","a","l","r","e","a","d","y"," ","e","x","i","s","t","s">>)>>]
                [] OTHER ->
                      /\ storage' = storage
                      /\ calls' = [calls EXCEPT ![c].pc = "done",
                                      ![c].result = <<Failed(<<"F","a","i","l","e","d"," ","t","o"," ","u","p","l","o","a","d"," ","f","i","l","e">>)>>]
    /\ UNCHANGED <<now, documents>>
    /\ UNCHANGED notUpload

\* variant: a failed insert returns the error at once
InsertSettlesNoCleanup(c) ==
    /\ calls[c].pc = "inserting"
    /\ \E inserted \in BOOLEAN :
          IF inserted
          THEN /\ documents' = documents \cup {DocumentRow(calls[c])}
               /\ calls' = [calls EXCEPT ![c].pc = "done",
                               ![c].result = <<[error |-> <<>>, data |-> DocumentRow(calls[c])]>>]
          ELSE /\ documents' = documents
               /\ calls' = [calls EXCEPT ![c].pc = "done",
                               ![c].dbError = <<"i","n","s","e","r","t"," ","f","a","i","l","e","d">>,
                               ![c].result = <<Failed(<<"i","n","s","e","r","t"," ","f","a","i","l","e","d">>)>>]
    /\ UNCHANGED <<now, storage>>
    /\ UNCHANGED notUpload

\* lines 52-81: the insert settles; with a row the call returns it, with
\* dbError the deletion of the uploaded object is issued
InsertSettles(c) ==
    /\ calls[c].pc = "inserting"
    /\ \E inserted \in BOOLEAN :
          IF inserted
          THEN /\ documents' = documents \cup {DocumentRow(calls[c])}
               /\ calls' = [calls EXCEPT ![c].pc = "done",
                               ![c].result = <<[error |-> <<>>, data |-> DocumentRow(calls[c])]>>]
          ELSE /\ documents' = documents
               /\ calls' = [calls EXCEPT ![c].pc = "deleting",
                               ![c].dbError = <<"i","n","s","e","r","t"," ","f","a","i","l","e","d">>]
    /\ UNCHANGED <<now, storage>>
    /\ UNCHANGED notUpload

\* lines 70-71: storageDeleteFile settles, removed or not (it reports a failure
\* in its return value, which is not looked at); the call returns dbError.message
DeleteSettles(c) ==
    /\ calls[c].pc = "deleting"
    /\ \E removed \in BOOLEAN :
          /\ storage' = IF removed
                        THEN {object \in storage : object.path # calls[c].storagePath}
                        ELSE storage
          /\ calls' = [calls EXCEPT ![c].pc = "done",
                          ![c].cleanup = IF removed THEN "ok" ELSE "failed",
                          ![c].result = <<Failed(calls[c].dbError)>>]
    /\ UNCHANGED <<now, documents>>
    /\ UNCHANGED notUpload

NextUpload ==
    \/ Tick
    \/ \E c \in Calls : GetUserSettles(c)
    \/ \E c \in Calls : UploadSettles(c)
    \/ \E c \in Calls : InsertSettles(c)
    \/ \E c \in Calls : DeleteSettles(c)

\* two concurrent uploads of one user
SpecUpload == InitUpload /\ [][NextUpload]_vars

----------------------------------------------------------------------------
(* ChatInput (components/chat/chat-input.tsx) with the onSendMessage it is  *)
(* given, ChatInterface's handleSendMessage.  One handleSubmit call is      *)
(* followed at a time; isLoading is isAIResponding (the transition of the   *)
(* optimistic message is over before any await settles).  Of the toasts    *)
(* only the one of handleFileSelect is kept.                               *)

ChatFiles ==
    {File(<<"n",".","t","x","t">>, MIME_TXT, 1024, GoodBody),
     File(<<"b",".","p","d","f">>, MIME_PDF, 1024, CorruptBody),
     File(<<"x",".","e","x","e">>, MIME_OCTET, MAX_FILE_SIZE + 1, GoodBody)}

\* what the file picker hands over: up to two different files, none included
Selections ==
    {picked \in UNION {[1..n -> ChatFiles] : n \in 0..2} :
        \A j, k \in 1..Len(picked) : j # k => picked[j] # picked[k]}

ChatTexts == {<<" ">>, <<" ","h","i">>}

\* variant: the valid files of a rejected selection are kept
handleFileSelectKeepValid(prev, picked, lastToast) ==
    IF Len(picked) = 0 THEN [selectedFiles |-> prev, toast |-> lastToast]
    ELSE LET checked == validateFiles(picked)
         IN  IF ~checked.valid
             THEN [selectedFiles |-> prev \o SelectSeq(picked, LAMBDA f : validateFile(f).valid),
                   toast |-> IF Len(checked.errors) > 0 /\ Truthy(checked.errors[1])
                             THEN checked.errors[1] ELSE <<"I","n","v","a","l","i","d"," ","f","i","l","e","(","s",")">>]
             ELSE [selectedFiles |-> prev \o picked, toast |-> lastToast]

\* lines 110-130: handleFileSelect on the picked files; the new selectedFiles
\* and the toast shown last
handleFileSelect(prev, picked, lastToast) ==
    IF Len(picked) = 0 THEN [selectedFiles |-> prev, toast |-> lastToast]
    ELSE LET checked == validateFiles(picked)
         IN  IF ~checked.valid
             THEN [selectedFiles |-> prev,
                   toast |-> IF Len(checked.errors) > 0 /\ Truthy(checked.errors[1])
                             THEN checked.errors[1] ELSE <<"I","n","v","a","l","i","d"," ","f","i","l","e","(","s",")">>]
             ELSE [selectedFiles |-> prev \o picked, toast |-> lastToast]

\* variant: every upload carries the first extracted string
extractedTextFirst(fileContents, index) ==
    IF 1 <= Len(fileContents) /\ Truthy(fileContents[1]) THEN fileContents[1] ELSE <<>>

\* line 53: fileContents?.[index] || ''
extractedTextAt(fileContents, index) ==
    IF index <= Len(fileContents) /\ Truthy(fileContents[index])
    THEN fileContents[index] ELSE <<>>

\* line 83: the arguments of onSendMessage
SendArgs(messageToSend, fileContents, documentIds) ==
    [content |-> IF Truthy(messageToSend) THEN messageToSend ELSE <<"A","n","a","l","y","z","e"," ","t","h","e","s","e"," ","d","o","c","u","m","e","n","t","s">>,
     fileContents |-> fileContents,
     documentIds |-> documentIds]

\* handleSendMessage (ChatInterface, lines 66-89) as onSendMessage sees it: a
\* createMessage error returns after a toast, every exception is caught, so
\* the promise resolves whatever the outcome of the two server actions
handleSendMessage(outcome) == Return(outcome)

\* lines 84-88: what handleSubmit leaves in the input when onSendMessage has
\* settled as settledAs
afterSend(settledAs, submission, text, attached, lastToast) ==
    IF settledAs.ok
    THEN [message |-> text, selectedFiles |-> attached, toast |-> lastToast]
    ELSE [message |-> submission.messageToSend,
          selectedFiles |-> submission.filesToProcess,
          toast |-> lastToast]

\* the input holds what the submission took from it
Restored(submission, input) ==
    /\ input.message = submission.messageToSend
    /\ input.selectedFiles = submission.filesToProcess

InitChat ==
    /\ ParseIdle(<<>>)
    /\ PreviewIdle
    /\ UploadIdle
    /\ ChatIdle
    /\ KbIdle

\* the textarea, the paperclip and the remove buttons are disabled meanwhile
InputEnabled == ~(isAIResponding \/ isParsing)

\* lines 98-104
HandleTextareaChange(text) ==
    /\ InputEnabled
    /\ message' = text
    /\ UNCHANGED <<selectedFiles, isParsing, isAIResponding, toast, sub>>
    /\ UNCHANGED notChat

\* lines 110-130, for selections that keep selectedFiles within MaxAttached
HandleFileSelect(picked) ==
    /\ InputEnabled
    /\ Len(selectedFiles) + Len(picked) <= MaxAttached
    /\ LET after == handleFileSelect(selectedFiles, picked, toast)
       IN  /\ selectedFiles' = after.selectedFiles
           /\ toast' = after.toast
    /\ UNCHANGED <<message, isParsing, isAIResponding, sub>>
    /\ UNCHANGED notChat

\* lines 132-134
RemoveFile(index) ==
    /\ InputEnabled
    /\ index \in 1..Len(selectedFiles)
    /\ selectedFiles' = [k \in 1..(Len(selectedFiles) - 1) |->
                            IF k < index THEN selectedFiles[k] ELSE selectedFiles[k + 1]]
    /\ UNCHANGED <<message, isParsing, isAIResponding, toast, sub>>
    /\ UNCHANGED notChat

\* variant: the uploads issued with the submission, before parseFiles returns
HandleSubmitUploadsAtOnce ==
    /\ sub.pc \in {"idle", "done"}
    /\ ~((Len(trim(message)) = 0 /\ Len(selectedFiles) = 0) \/ isAIResponding \/ isParsing)
    /\ sub' = [IdleSub EXCEPT
                  !.messageToSend = trim(message),
                  !.filesToProcess = selectedFiles,
                  !.uploads = [k \in 1..Len(selectedFiles) |->
                                  [file |-> selectedFiles[k], extractedText |-> <<>>,
                                   status |-> "pending"]],
                  !.pc = IF Len(selectedFiles) > 0 THEN "parsing" ELSE "saving",
                  !.sent = IF Len(selectedFiles) > 0 THEN <<>>
                           ELSE <<SendArgs(trim(message), <<>>, <<>>)>>]
    /\ message' = <<>>
    /\ selectedFiles' = <<>>
    /\ isParsing' = (Len(selectedFiles) > 0)
    /\ UNCHANGED <<isAIResponding, toast>>
    /\ UNCHANGED notChat

\* lines 25-49 and 83: handleSubmit up to its first await: parseFiles when
\* files are attached, otherwise createMessage inside onSendMessage
HandleSubmit ==
    /\ sub.pc \in {"idle", "done"}
    /\ ~((Len(trim(message)) = 0 /\ Len(selectedFiles) = 0) \/ isAIResponding \/ isParsing)
    /\ sub' = [IdleSub EXCEPT
                  !.messageToSend = trim(message),
                  !.filesToProcess = selectedFiles,
                  !.pc = IF Len(selectedFiles) > 0 THEN "parsing" ELSE "saving",
                  !.sent = IF Len(selectedFiles) > 0 THEN <<>>
                           ELSE <<SendArgs(trim(message), <<>>, <<>>)>>]
    /\ message' = <<>>
    /\ selectedFiles' = <<>>
    /\ isParsing' = (Len(selectedFiles) > 0)
    /\ UNCHANGED <<isAIResponding, toast>>
    /\ UNCHANGED notChat

\* lines 49-57: parseFiles has settled; every upload is issued, then awaited
\* together (a rejection would skip the uploads, lines 73-83)
ParseFilesReturns ==
    /\ sub.pc = "parsing"
    /\ LET parsed == parseFiles(sub.filesToProcess)
       IN  IF parsed.ok
           THEN /\ sub' = [sub EXCEPT
                             !.pc = "uploading",
                             !.fileContents = parsed.value,
                             !.uploads = [k \in 1..Len(sub.filesToProcess) |->
                                 [file |-> sub.filesToProcess[k],
                                  extractedText |-> extractedTextAt(parsed.value, k),
                                  status |-> "pending"]]]
                /\ UNCHANGED <<isParsing, toast>>
           ELSE /\ sub' = [sub EXCEPT
                             !.pc = "saving",
                             !.sent = <<SendArgs(sub.messageToSend, <<>>, <<>>)>>]
                /\ isParsing' = FALSE
                /\ toast' = toast
    /\ UNCHANGED <<message, selectedFiles, isAIResponding>>
    /\ UNCHANGED notChat

\* one uploadChatSessionDocument call settles: a document row, an error
\* result, or a rejection
UploadResultArrives(index) ==
    /\ sub.pc = "uploading"
    /\ index \in 1..Len(sub.uploads)
    /\ sub.uploads[index].status = "pending"
    /\ \E outcome \in {"data", "error", "rejected"} :
          sub' = [sub EXCEPT !.uploads[index].status = outcome]
    /\ UNCHANGED <<message, selectedFiles, isParsing, isAIResponding, toast>>
    /\ UNCHANGED notChat

\* lines 57-83: Promise.allSettled resolves; the ids of the stored documents
\* (here: their indices) are collected and onSendMessage is called
AllSettled ==
    /\ sub.pc = "uploading"
    /\ \A k \in 1..Len(sub.uploads) : sub.uploads[k].status # "pending"
    /\ LET stored == {k \in 1..Len(sub.uploads) : sub.uploads[k].status = "data"}
           documentIds == SelectSeq([k \in 1..Len(sub.uploads) |-> k], LAMBDA k : k \in stored)
       IN  /\ sub' = [sub EXCEPT
                         !.pc = "saving",
                         !.documentIds = documentIds,
                         !.sent = <<SendArgs(sub.messageToSend, sub.fileContents, documentIds)>>]
           /\ toast' = toast
    /\ isParsing' = FALSE
    /\ UNCHANGED <<message, selectedFiles, isAIResponding>>
    /\ UNCHANGED notChat

\* handleSendMessage lines 68-80: createMessage settles; on success the AI
\* response is requested, otherwise handleSendMessage is over and handleSubmit
\* with it
CreateMessageSettles ==
    /\ sub.pc = "saving"
    /\ \E outcome \in {"ok", "error", "raised"} :
          IF outcome = "ok"
          THEN /\ sub' = [sub EXCEPT !.pc = "responding"]
               /\ isAIResponding' = TRUE
               /\ UNCHANGED <<message, selectedFiles, toast>>
          ELSE LET after == afterSend(handleSendMessage(outcome), sub, message,
                                      selectedFiles, toast)
               IN  /\ message' = after.message
                   /\ selectedFiles' = after.selectedFiles
                   /\ toast' = after.toast
                   /\ isAIResponding' = FALSE
                   /\ sub' = [IdleSub EXCEPT
                                 !.pc = "done",
                                 !.failed = TRUE,
                                 !.restored = Restored(sub, after)]
    /\ UNCHANGED isParsing
    /\ UNCHANGED notChat

\* handleSendMessage lines 80-89: generateAIResponse settles, handleSendMessage
\* and handleSubmit are over and their locals gone
GenerateAIResponseSettles ==
    /\ sub.pc = "responding"
    /\ \E outcome \in {"ok", "error", "raised"} :
          LET after == afterSend(handleSendMessage(outcome), sub, message, selectedFiles, toast)
          IN  /\ message' = after.message
              /\ selectedFiles' = after.selectedFiles
              /\ toast' = after.toast
              /\ sub' = [IdleSub EXCEPT
                            !.pc = "done",
                            !.failed = (outcome # "ok"),
                            !.restored = Restored(sub, after)]
    /\ isAIResponding' = FALSE
    /\ UNCHANGED isParsing
    /\ UNCHANGED notChat

NextChat ==
    \/ \E text \in ChatTexts : HandleTextareaChange(text)
    \/ \E picked \in Selections : HandleFileSelect(picked)
    \/ \E index \in 1..MaxAttached : RemoveFile(index)
    \/ HandleSubmit
    \/ ParseFilesReturns
    \/ \E index \in 1..MaxAttached : UploadResultArrives(index)
    \/ AllSettled
    \/ CreateMessageSettles
    \/ GenerateAIResponseSettles

\* the chat input used by one user
SpecChat == InitChat /\ [][NextChat]_vars

----------------------------------------------------------------------------
(* The knowledge-base page (app/chat/knowledge/page.tsx) with its          *)
(* DocumentUpload (components/chat/document-upload.tsx).  The isUploading   *)
(* of the component and the one of the page are set and cleared by the same *)
(* upload and are one variable here; toasts are not kept.                  *)

KbFiles ==
    {File(<<"n",".","t","x","t">>, MIME_TXT, 1024, GoodBody),
     File(<<"b","i","g",".","p","d","f">>, MIME_PDF, MAX_FILE_SIZE + 1, GoodBody),
     File(<<"x",".","e","x","e">>, MIME_OCTET, 1024, GoodBody)}

\* what is dropped on the card or picked in the file dialog
KbSelections ==
    {picked \in UNION {[1..n -> KbFiles] : n \in 1..2} :
        \A j, k \in 1..Len(picked) : j # k => picked[j] # picked[k]}

\* document-upload.tsx lines 33-38: the files of a drop that are kept
droppedFiles(dropped) ==
    SelectSeq(dropped, LAMBDA file :
        \/ file.type = MIME_PDF
        \/ file.type = MIME_TXT
        \/ file.type = MIME_DOC
        \/ file.type = MIME_DOCX)

InitKnowledge ==
    /\ ParseIdle(<<>>)
    /\ PreviewIdle
    /\ UploadIdle
    /\ ChatIdle
    /\ KbIdle

\* document-upload.tsx lines 29-45
KbHandleDrop(dropped) ==
    /\ Len(kbSelected) + Len(dropped) <= MaxAttached
    /\ kbSelected' = IF Len(droppedFiles(dropped)) > 0
                     THEN kbSelected \o droppedFiles(dropped)
                     ELSE kbSelected
    /\ UNCHANGED <<isUploading, kb>>
    /\ UNCHANGED notKb

\* document-upload.tsx lines 47-50
KbHandleFileSelect(picked) ==
    /\ Len(kbSelected) + Len(picked) <= MaxAttached
    /\ kbSelected' = kbSelected \o picked
    /\ UNCHANGED <<isUploading, kb>>
    /\ UNCHANGED notKb

\* document-upload.tsx lines 52-54; the button is disabled during an upload
KbRemoveFile(index) ==
    /\ ~isUploading
    /\ index \in 1..Len(kbSelected)
    /\ kbSelected' = [k \in 1..(Len(kbSelected) - 1) |->
                         IF k < index THEN kbSelected[k] ELSE kbSelected[k + 1]]
    /\ UNCHANGED <<isUploading, kb>>
    /\ UNCHANGED notKb

\* document-upload.tsx lines 56-62 and page.tsx lines 49-54: handleUpload up
\* to the await of parseFiles(files)
KbHandleUpload ==
    /\ ~isUploading
    /\ Len(kbSelected) > 0
    /\ isUploading' = TRUE
    /\ kb' = [IdleKb EXCEPT !.pc = "parsing", !.files = kbSelected]
    /\ UNCHANGED kbSelected
    /\ UNCHANGED notKb

\* page.tsx lines 54-60: parseFiles has settled (a rejection ends the upload,
\* lines 88-93)
KbParseFilesReturns ==
    /\ kb.pc = "parsing"
    /\ LET parsed == parseFiles(kb.files)
       IN  kb' = IF parsed.ok
                 THEN [kb EXCEPT !.pc = "uploading", !.extractedTexts = parsed.value, !.i = 1]
                 ELSE [kb EXCEPT !.pc = "finishing"]
    /\ UNCHANGED <<kbSelected, isUploading>>
    /\ UNCHANGED notKb

\* page.tsx lines 60-77: uploadAndIndexDocument(files[i], extractedTexts[i])
\* settles with a document, with an error, or by raising
KbUploadSettles ==
    /\ kb.pc = "uploading"
    /\ kb.i <= Len(kb.files)
    /\ \E outcome \in {"data", "error", "raised"} :
          kb' = [kb EXCEPT
                    !.i = @ + 1,
                    !.successCount = IF outcome = "data" THEN @ + 1 ELSE @,
                    !.failCount = IF outcome = "data" THEN @ ELSE @ + 1]
    /\ UNCHANGED <<kbSelected, isUploading>>
    /\ UNCHANGED notKb

\* page.tsx lines 79-95 and document-upload.tsx lines 66-71: the loop is
\* over, the list is fetched again, handleUpload resolves and the component
\* forgets its files
KbUploadDone ==
    /\ \/ kb.pc = "uploading" /\ kb.i > Len(kb.files)
       \/ kb.pc = "finishing"
    /\ kb' = [kb EXCEPT !.pc = "done"]
    /\ kbSelected' = <<>>
    /\ isUploading' = FALSE
    /\ UNCHANGED notKb

NextKnowledge ==
    \/ \E dropped \in KbSelections : KbHandleDrop(dropped)
    \/ \E picked \in KbSelections : KbHandleFileSelect(picked)
    \/ \E index \in 1..MaxAttached : KbRemoveFile(index)
    \/ KbHandleUpload
    \/ KbParseFilesReturns
    \/ KbUploadSettles
    \/ KbUploadDone

\* the knowledge-base page used by one user
SpecKnowledge == InitKnowledge /\ [][NextKnowledge]_vars

----------------------------------------------------------------------------
(* Properties of the storage paths and of uploadDocument (checked under    *)
(* SpecUpload)                                                             *)

\* C21: any two calls for the same user get distinct storage paths, so that no
\* upload fails because its path is taken.
C21_DistinctPaths ==
    /\ \A c, d \in Calls :
          (/\ c # d
           /\ calls[c].user = calls[d].user
           /\ calls[c].storagePath # <<>>
           /\ calls[d].storagePath # <<>>) => calls[c].storagePath # calls[d].storagePath
    /\ \A c \in Calls :
          calls[c].result # <<>> => calls[c].result[1].error # <<"T","h","e"," ","r","e","s","o","u","r","c","e"," ","a","l","r","e","a","d","y"," ","e","x","i","s","t","s">>

\* the characters a sanitized filename is made of
C22_Allowed ==
    {"a","b","c","d","e","f","g","h","i","j","k","l","m","n","o","p","q","r","s","t",
     "u","v","w","x","y","z","A","B","C","D","E","F","G","H","I","J","K","L","M","N",
     "O","P","Q","R","S","T","U","V","W","X","Y","Z","0","1","2","3","4","5","6","7",
     "8","9",".","_","-"}

\* s is name with every character outside the allowed ones replaced by "_"
C22_Sanitized(s, name) ==
    /\ Len(s) = Len(name)
    /\ \A k \in 1..Len(name) :
          /\ s[k] = IF name[k] \in C22_Allowed THEN name[k] ELSE "_"
          /\ s[k] \notin {"/", " ", "\t", "\n", "\r"}

\* path is prefix, a clock reading, "_" and the sanitized name
C22_PathOf(path, prefix, name) ==
    \E t \in Epoch..(Epoch + MaxTicks + 1) :
        LET head == prefix \o numberToString(t) \o <<"_">>
        IN  /\ startsWith(path, head)
            /\ C22_Sanitized(SubSeq(path, Len(head) + 1, Len(path)), name)

\* C22: the path is "{userId}/knowledge-base/{timestamp}_{sanitized}" for
\* knowledge_base and "{userId}/sessions/{sessionId}/{timestamp}_{sanitized}"
\* for chat_session, sanitized being the filename with every character outside
\* [a-zA-Z0-9._-] replaced by "_"; chat_session without sessionId fails without
\* a path.
C22_PathFormat ==
    \A c \in Calls :
        calls[c].user # <<>> =>
            IF calls[c].storageType = "knowledge_base"
            THEN C22_PathOf(calls[c].storagePath, calls[c].user \o <<"/","k","n","o","w","l","e","d","g","e","-","b","a","s","e","/">>,
                            calls[c].file.name)
            ELSE IF calls[c].sessionId # <<>>
            THEN C22_PathOf(calls[c].storagePath,
                            calls[c].user \o <<"/","s","e","s","s","i","o","n","s","/">> \o calls[c].sessionId \o <<"/">>,
                            calls[c].file.name)
            ELSE /\ calls[c].storagePath = <<>>
                 /\ calls[c].pc = "done"
                 /\ ~calls[c].uploaded
                 /\ calls[c].result[1].data = <<>>
                 /\ calls[c].result[1].error =
                        <<"S","e","s","s","i","o","n"," ","I","D"," ","i","s"," ","r","e","q","u","i","r","e","d"," ","f","o","r"," ","c","h","a","t","_","s","e","s","s","i","o","n"," ","s","t","o","r","a","g","e"," ","t","y","p","e">>

\* one path of each form generated, from names with a blank and with a slash,
\* and a chat_session call without sessionId failed
C22_Witness ==
    /\ calls[1].storagePath = <<"u","1","/","k","n","o","w","l","e","d","g","e","-","b","a","s","e","/","1","7","0","0","_","a","_","b",".","t","x","t">>
    /\ calls[2].storageType = "chat_session"
    /\ calls[2].sessionId = <<>>
    /\ calls[2].user # <<>>
    /\ calls[2].pc = "done"

\* the object call c uploaded is in the bucket
C28_ObjectRemains(c) ==
    \E object \in storage : object.by = c /\ object.path = calls[c].storagePath

\* C28 as stated: when uploadDocument has returned an error, no object that the
\* call uploaded is in storage.
C28_NoObjectAfterError ==
    \A c \in Calls :
        (calls[c].result # <<>> /\ calls[c].result[1].error # <<>>) => ~C28_ObjectRemains(c)

\* C28 amended: when uploadDocument has returned an error after its upload
\* succeeded, it has asked storage to delete the object; the object is gone
\* when that deletion succeeded and still there, without a row, when it failed.
C28_CleanupAttempted ==
    \A c \in Calls :
        (calls[c].result # <<>> /\ calls[c].result[1].error # <<>> /\ calls[c].uploaded)
            => /\ calls[c].cleanup # "none"
               /\ calls[c].cleanup = "ok" => ~C28_ObjectRemains(c)
               /\ calls[c].cleanup = "failed" =>
                     /\ C28_ObjectRemains(c)
                     /\ \A row \in documents : row.file_path # calls[c].storagePath

\* an insert failed and the uploaded object was deleted before the error came back
C28_Witness ==
    /\ calls[1].result # <<>>
    /\ calls[1].result[1].error = <<"i","n","s","e","r","t"," ","f","a","i","l","e","d">>
    /\ calls[1].uploaded
    /\ calls[1].cleanup = "ok"
    /\ storage = {}

----------------------------------------------------------------------------
(* Properties of the chat input (checked under SpecChat)                   *)

\* the upload handleSubmit issues for the file at index k of the submission
C24_UploadOf(submission, k) ==
    [file |-> submission.filesToProcess[k],
     extractedText |-> parseFiles(submission.filesToProcess).value[k]]

\* C24: no upload of a submission is issued while parseFiles is still running;
\* once it has returned there is one upload per file, all issued together,
\* and the upload at index i is of the file at index i with the string
\* extracted from that file.
C24_UploadsFollowParsing ==
    /\ sub.pc = "parsing" => sub.uploads = <<>>
    /\ sub.pc = "uploading" =>
          /\ Len(sub.uploads) = Len(sub.filesToProcess)
          /\ \A k \in 1..Len(sub.uploads) :
                /\ sub.uploads[k].file = C24_UploadOf(sub, k).file
                /\ sub.uploads[k].extractedText = C24_UploadOf(sub, k).extractedText

\* two uploads in flight at once, carrying different extracted strings
C24_Witness ==
    /\ sub.pc = "uploading"
    /\ Len(sub.uploads) = 2
    /\ \A k \in 1..2 : sub.uploads[k].status = "pending"
    /\ sub.uploads[1].extractedText # sub.uploads[2].extractedText
    /\ sub.uploads[2].extractedText # <<>>

\* C25: handleFileSelect leaves selectedFiles as it was when a picked file
\* fails validation, and appends the whole selection, in picked order, when
\* every picked file passes.
C25_AllOrNothing ==
    [][\A picked \in Selections :
          (sub' = sub /\ message' = message /\ HandleFileSelect(picked)) =>
              selectedFiles' = IF \A k \in 1..Len(picked) : C6_Passes(picked[k])
                               THEN selectedFiles \o picked
                               ELSE selectedFiles]_vars

\* a selection with a valid and an invalid file was rejected while a file was
\* attached already
C25_Witness ==
    /\ toast # <<>>
    /\ Len(selectedFiles) = 1
    /\ C6_Passes(selectedFiles[1])
    /\ sub.pc = "idle"

\* C29: after a submission whose message could not be saved or answered, the
\* input holds the text and the files the submission took from it.
C29_DraftRestored ==
    (sub.pc = "done" /\ sub.failed) => sub.restored

----------------------------------------------------------------------------
(* Property of every upload path of the UI (checked under SpecKnowledge)   *)

\* C23: parseFiles is called only on files that pass the type check and the
\* size check of validateFiles, in the chat input and on the knowledge page,
\* whether the files were picked or dropped.
C23_OnlyValidFilesParsed ==
    /\ \A k \in 1..Len(sub.filesToProcess) : C6_Passes(sub.filesToProcess[k])
    /\ \A k \in 1..Len(kb.files) : C6_Passes(kb.files[k])

\* the event loop runs every continuation that is ready, and (the assumption
\* of the termination claim) every single-file extraction settles
FairSpec ==
    /\ InitFair
    /\ [][Next]_vars
    /\ WF_vars(BeginExtract)
    /\ WF_vars(SettleExtract)
    /\ WF_vars(ReturnResults)

====
